---- MODULE Spec2Model ----
(***************************************************************************)
(* Model of the note-rewriting pipeline of document_processor.py:          *)
(* URL/DOI normalisation, the source-key function, the citation history    *)
(* and the two-phase process_document loop; and of the federated search    *)
(* of author_date_engine.py: scoring, collection, ranking, oracle fallback.*)
(*                                                                         *)
(* Strings are sequences of symbols.  A symbol is a one-character string   *)
(* or a short literal that the code treats as a unit ("doi:", "http").     *)
(* The empty sequence stands for both "" and None of a string field: the   *)
(* code only ever tests such fields for truthiness.  For a value that is   *)
(* an object or None (metadata, history entry) None is <<>> and the        *)
(* object x is <<x>>.                                                      *)
(***************************************************************************)
EXTENDS Integers, Sequences, FiniteSets, TLC

VARIABLES
    notes,          \* all_notes: the enumerated notes, endnotes then footnotes
    fetched_data,   \* Phase 1 output, one record per note, in note order
    phase,          \* position of process_document: "phase1", "phase2", "done"
    idx,            \* number of records Phase 2 has handled so far
    history,        \* the CitationHistory object
    results,        \* the results log (list of ProcessedCitation)
    doc,            \* stored content of each note in the document parts
    cases,          \* branch of the Phase 2 loop body each note entered
    km1, km2,       \* inputs of the source-key functions
    kstage,         \* "in" before, "out" after the key functions ran
    key1, key2,     \* generate_source_key(km1), generate_source_key(km2)
    kmatch,         \* sources_match(km1, km2)
    u1, u2,         \* inputs of the URL functions
    ustage,         \* "in" before, "out" after the URL functions ran
    nurl1, nurl2,   \* normalize_url(u1), normalize_url(u2)
    umatch,         \* urls_match(u1, u2)
    answers,        \* what get_citation answers for each note's text
    tasks,          \* Phase 1 executor: "queued", "running" or "done" per note
    slots,          \* result held by each Phase 1 future, None until done
    completed,      \* note positions in the order their tasks finished
    cq,             \* arguments (author, year, second_author) of a scoring call
    cmeta,          \* the record a provider's engine returned
    cprov,          \* the provider that returned it
    cstage,         \* "in" before, "out" after the scoring
    cconf,          \* _calculate_confidence(cmeta, ...)
    cfinal,         \* the provider function's result list for cmeta
    sq,             \* arguments (author, year, second_author) of search
    avail,          \* providers whose engine module can be imported
    spc,            \* position of search: "call", "collect", "oracle",
                    \* "returned", "raised"
    handles,        \* providers whose lazy engine handle has been created
    futures,        \* providers with a submitted task, in submission order
    engine_out,     \* what each collected provider's engine did
    collected,      \* providers in the order as_completed yielded them
    sresults,       \* the results list of search
    guess_out,      \* what guess_citation did, None while it was not called
    best,           \* the SearchResult whose metadata is returned, or None
    ret,            \* return value of search
    exc,            \* exception search ended with, "" if none
    g_engine,       \* module-level _engine: 0 for None, else the engine's number
    n_engines,      \* AuthorDateEngine objects constructed so far
    hnd,            \* per engine and provider: the stored handle, 0 for None
    n_inst,         \* per engine and provider: engine objects constructed
    used,           \* per engine and provider: the handles calls have worked with
    tpc,            \* per thread: position inside get_engine().search(...)
    teng,           \* per thread: the engine get_engine returned
    tprov,          \* per thread: index of the provider whose handle is being fetched
    tgot,           \* per thread: providers for which a task was submitted
    calls_left,     \* per thread: calls of search still to make
    havail,         \* providers whose engine module can be imported
    file_bytes,     \* process_document argument: whether it is a zip archive, and the notes in it
    pack_ok,        \* False once save_to_buffer could not write the archive
    dret,           \* the pair process_document returned, None before that
    dexc,           \* exception process_document ended with, "" if none
    part,           \* the notes part as stored in the extracted archive
    part0,          \* the part as it was in the input document
    pkind,          \* "endnote" or "footnote": which part it is
    pstage,         \* "start", "loop" (Phase 2 over the listing), "direct", "done"
    listing,        \* what get_endnotes / get_footnotes returned at the start
    ppos,           \* entries of the listing Phase 2 has handled
    plogged,        \* note IDs for which Phase 2 appended a result
    last,           \* the last write: caller, note ID, content, returned flag; None before
    faithful,       \* every note so far was written back with the text read, successfully
    relisting,      \* what get_endnotes / get_footnotes returns afterwards
    rels_file,      \* the Relationship elements of the part's .rels sidecar
    rstage,         \* "file" before RelsManager loaded it, "loaded", "saved"
    relationships,  \* RelsManager.relationships: rId -> type, target, mode
    next_id,        \* RelsManager.next_id
    url_to_rid,     \* RelsManager.url_to_rid: URL -> rId
    processed_urls, \* the URL -> rId cache of _process_xml_file
    links,          \* the w:hyperlink elements created: URL and r:id of each
    apara0,         \* children of the paragraph as the input part has them
    apara,          \* children of the paragraph as the part now has them
    asidecar0,      \* the Relationship elements of the input sidecar
    asidecar,       \* the Relationship elements of the sidecar as saved
    apass,          \* passes of LinkActivator.process made over the part
    aprev,          \* paragraph and sidecar as they were before the last pass
    ref_body0,      \* children of w:body in the input document
    ref_body,       \* children of w:body as the document now has them
    ref_style,      \* citation style the reference list is generated for
    ref_list,       \* formatted text of the reference entries
    ref_found,      \* position among the paragraphs where the last splice found a heading
    ref_new,        \* paragraphs the last splice created
    ref_splices,    \* applications of _update_document_references
    ref_prev        \* children of w:body before the last splice

docvars == <<notes, fetched_data, phase, idx, history, results, doc, cases>>
keyvars == <<km1, km2, kstage, key1, key2, kmatch>>
urlvars == <<u1, u2, ustage, nurl1, nurl2, umatch>>
p1vars == <<answers, tasks, slots, completed>>
confvars == <<cq, cmeta, cprov, cstage, cconf, cfinal>>
searchvars == <<sq, avail, spc, handles, futures, engine_out, collected,
                sresults, guess_out, best, ret, exc>>
handlevars == <<g_engine, n_engines, hnd, n_inst, used, tpc, teng, tprov, tgot, calls_left, havail>>
entryvars == <<file_bytes, pack_ok, dret, dexc>>
partvars == <<part, part0, pkind, pstage, listing, ppos, plogged, last, faithful, relisting>>
relsvars == <<rels_file, rstage, relationships, next_id, url_to_rid, processed_urls, links>>
actvars == <<apara0, apara, asidecar0, asidecar, apass, aprev>>
refvars == <<ref_body0, ref_body, ref_style, ref_list, ref_found, ref_new, ref_splices, ref_prev>>
vars == <<notes, fetched_data, phase, idx, history, results, doc, cases,
          km1, km2, kstage, key1, key2, kmatch,
          u1, u2, ustage, nurl1, nurl2, umatch,
          answers, tasks, slots, completed,
          cq, cmeta, cprov, cstage, cconf, cfinal,
          sq, avail, spc, handles, futures, engine_out, collected, sresults,
          guess_out, best, ret, exc,
          g_engine, n_engines, hnd, n_inst, used, tpc, teng, tprov, tgot, calls_left, havail,
          file_bytes, pack_ok, dret, dexc,
          part, part0, pkind, pstage, listing, ppos, plogged, last, faithful, relisting,
          rels_file, rstage, relationships, next_id, url_to_rid, processed_urls, links,
          apara0, apara, asidecar0, asidecar, apass, aprev,
          ref_body0, ref_body, ref_style, ref_list, ref_found, ref_new, ref_splices, ref_prev>>

None == <<>>
Some(x) == <<x>>

-----------------------------------------------------------------------------
(* Bounds                                                                  *)

MaxDoiLen == 2
MaxUrlLen == 2
MaxTitleLen == 1
MaxNotes == 3
MaxUrlChars == 3
MaxTasks == 2
MaxThreads == 2
MaxCalls == 2
MaxPartNotes == 2
MaxRels == 2
MaxLinks == 2
MaxRunLen == 5
MaxPasses == 2
MaxBody == 3
MaxRefs == 1

-----------------------------------------------------------------------------
(* String primitives: str.lower, str.strip, str.rstrip('/'), split('?')[0] *)

LowerSym(c) ==
    CASE c = "A" -> "a"
      [] c = "B" -> "b"
      [] c = "C" -> "c"
      [] c = "S" -> "s"
      [] c = "T" -> "t"
      [] c = "X" -> "x"
      [] c = "Y" -> "y"
      [] c = "DOI:" -> "doi:"
      [] c = "Ibid" -> "ibid"
      [] c = "Id" -> "id"
      [] c = "HTTP" -> "http"
      [] OTHER -> c

Lower(s) == [i \in 1..Len(s) |-> LowerSym(s[i])]

RECURSIVE LStrip(_)
LStrip(s) == IF s # <<>> /\ Head(s) = " " THEN LStrip(Tail(s)) ELSE s

RECURSIVE RStrip(_)
RStrip(s) ==
    IF s # <<>> /\ s[Len(s)] = " " THEN RStrip(SubSeq(s, 1, Len(s) - 1)) ELSE s

Strip(s) == RStrip(LStrip(s))

RECURSIVE RStripSlash(_)
RStripSlash(s) ==
    IF s # <<>> /\ s[Len(s)] = "/"
    THEN RStripSlash(SubSeq(s, 1, Len(s) - 1))
    ELSE s

Contains(s, c) == \E i \in 1..Len(s) : s[i] = c

\* s.split(c)[0]: the part of s before the first occurrence of c
BeforeFirst(s, c) ==
    IF Contains(s, c)
    THEN SubSeq(s, 1, (CHOOSE i \in 1..Len(s) :
                          s[i] = c /\ \A j \in 1..(i - 1) : s[j] # c) - 1)
    ELSE s

-----------------------------------------------------------------------------
(* URL and DOI normalisation                                               *)

normalize_url(url) ==
    IF url = <<>> THEN <<>>
    ELSE LET lowered == Lower(Strip(url))
             noslash == RStripSlash(lowered)
         IN  IF Contains(noslash, "?") THEN BeforeFirst(noslash, "?") ELSE noslash

urls_match(url1, url2) ==
    IF url1 = <<>> \/ url2 = <<>> THEN FALSE
    ELSE normalize_url(url1) = normalize_url(url2)

\* models.normalize_doi: lowercase, stripped of a "doi:" or resolver-URL
\* prefix, trimmed
DoiPrefixes == {"doi:", "https://doi.org/"}

normalize_doi(doi) ==
    IF doi = <<>> THEN <<>>
    ELSE LET lowered == Lower(Strip(doi))
             bare == IF lowered # <<>> /\ Head(lowered) \in DoiPrefixes
                     THEN Tail(lowered) ELSE lowered
         IN  Strip(bare)

-----------------------------------------------------------------------------
(* Source key                                                              *)

\* CitationMetadata, the fields the note pipeline reads
Metadata(doi, url, case_name, citation, title, authors) ==
    [doi |-> doi, url |-> url, case_name |-> case_name,
     citation |-> citation, title |-> title, authors |-> authors]

\* generate_source_key with "... or DOI" dropped from the priority list: the
\* DOI branch is skipped
generate_source_key_NoDoi(metadata) ==
    IF metadata.url # <<>>
    THEN <<"url:">> \o normalize_url(metadata.url)
    ELSE IF metadata.case_name # <<>> /\ metadata.citation # <<>>
    THEN <<"legal:">> \o Strip(Lower(metadata.case_name)) \o <<"|">>
             \o Strip(Lower(metadata.citation))
    ELSE IF metadata.title # <<>>
    THEN <<"title:">> \o Strip(Lower(metadata.title))
             \o (IF Len(metadata.authors) > 0
                 THEN <<"|author:">> \o Strip(Lower(metadata.authors[1]))
                 ELSE <<>>)
    ELSE IF metadata.case_name # <<>>
    THEN <<"case:">> \o Strip(Lower(metadata.case_name))
    ELSE None

\* generate_source_key without the final case-name fallback (priority 5)
generate_source_key_NoCase(metadata) ==
    IF metadata.doi # <<>> /\ normalize_doi(metadata.doi) # <<>>
    THEN <<"doi:">> \o normalize_doi(metadata.doi)
    ELSE IF metadata.url # <<>>
    THEN <<"url:">> \o normalize_url(metadata.url)
    ELSE IF metadata.case_name # <<>> /\ metadata.citation # <<>>
    THEN <<"legal:">> \o Strip(Lower(metadata.case_name)) \o <<"|">>
             \o Strip(Lower(metadata.citation))
    ELSE IF metadata.title # <<>>
    THEN <<"title:">> \o Strip(Lower(metadata.title))
             \o (IF Len(metadata.authors) > 0
                 THEN <<"|author:">> \o Strip(Lower(metadata.authors[1]))
                 ELSE <<>>)
    ELSE None

\* The key is a string; its literal prefixes are single symbols here.
generate_source_key(metadata) ==
    IF metadata.doi # <<>> /\ normalize_doi(metadata.doi) # <<>>
    THEN <<"doi:">> \o normalize_doi(metadata.doi)
    ELSE IF metadata.url # <<>>
    THEN <<"url:">> \o normalize_url(metadata.url)
    ELSE IF metadata.case_name # <<>> /\ metadata.citation # <<>>
    THEN <<"legal:">> \o Strip(Lower(metadata.case_name)) \o <<"|">>
             \o Strip(Lower(metadata.citation))
    ELSE IF metadata.title # <<>>
    THEN <<"title:">> \o Strip(Lower(metadata.title))
             \o (IF Len(metadata.authors) > 0
                 THEN <<"|author:">> \o Strip(Lower(metadata.authors[1]))
                 ELSE <<>>)
    ELSE IF metadata.case_name # <<>>
    THEN <<"case:">> \o Strip(Lower(metadata.case_name))
    ELSE None

\* sources_match comparing the raw DOI fields instead of the keys
sources_match_RawDoi(metadata1, metadata2) ==
    LET k1 == generate_source_key(metadata1)
        k2 == generate_source_key(metadata2)
    IN  IF k1 = None \/ k2 = None THEN FALSE
        ELSE k1 = k2 /\ metadata1.doi = metadata2.doi

sources_match(metadata1, metadata2) ==
    LET k1 == generate_source_key(metadata1)
        k2 == generate_source_key(metadata2)
    IN  IF k1 = None \/ k2 = None THEN FALSE ELSE k1 = k2

-----------------------------------------------------------------------------
(* Ibid recogniser: IBID_PATTERN matched over the symbols of a note text.  *)
(* A position set holds the indices the pattern may have reached.          *)

IbidWords == {"ibid", "ibidem", "id"}
PageSyms == {"45", "12-15"}

\* positions after one symbol from syms
AfterSym(t, P, syms) ==
    {i + 1 : i \in {p \in P : p <= Len(t) /\ LowerSym(t[p]) \in syms}}

\* x?  and  x*
OptSym(t, P, syms) == P \cup AfterSym(t, P, syms)
StarSym(t, P, syms) ==
    {j \in 1..(Len(t) + 1) :
        \E i \in P : i <= j /\ \A k \in i..(j - 1) : LowerSym(t[k]) \in syms}

IbidEnds(t) ==
    LET word == IF t # <<>> /\ LowerSym(t[1]) \in IbidWords THEN {2} ELSE {}
        head == OptSym(t, word, {"."})
        sp == StarSym(t, head, {" "})
        at == StarSym(t, AfterSym(t, AfterSym(t, sp, {"at"}), {" "}), {" "})
        sep == sp \cup at \cup StarSym(t, OptSym(t, sp, {",", "."}), {" "})
        pp == sep \cup
              StarSym(t, OptSym(t, AfterSym(t, sep, {"p", "pp"}), {"."}), {" "})
        page == pp \cup AfterSym(t, pp, PageSyms)
    IN  OptSym(t, head \cup page, {"."})

is_ibid(text) ==
    IF text = <<>> THEN FALSE
    ELSE (Len(Strip(text)) + 1) \in IbidEnds(Strip(text))

\* group 1 of the match: the page symbol, the only symbol a page can match
extract_ibid_page(text) ==
    IF text # <<>> /\ is_ibid(text)
       /\ \E i \in 1..Len(text) : text[i] \in PageSyms
    THEN <<text[CHOOSE i \in 1..Len(text) : text[i] \in PageSyms]>>
    ELSE <<>>

-----------------------------------------------------------------------------
(* Formatter interface (formatters.base)                                   *)

format_ibid(page) ==
    IF page = <<>> THEN <<"Ibid", ".">>
    ELSE <<"Ibid", ".", ",", " ">> \o page \o <<".">>

format_short(metadata) == <<"Short", ":">> \o metadata.title \o metadata.doi

format_full(metadata) ==
    <<"Full", ":">> \o metadata.title \o metadata.doi \o metadata.url

-----------------------------------------------------------------------------
(* CitationHistory                                                         *)

HistoryEntry(metadata, formatted, source_key, note_number) ==
    [metadata |-> metadata, formatted |-> formatted,
     source_key |-> source_key, note_number |-> note_number]

NewHistory == [previous |-> None, all_sources |-> <<>>, note_counter |-> 0]

\* CitationHistory.add storing the most recent occurrence of a key
HistoryAdd_LastOccurrence(h, metadata, formatted) ==
    LET counter == h.note_counter + 1
        source_key == generate_source_key(metadata)
        entry == HistoryEntry(metadata, formatted, source_key, counter)
    IN  [previous |-> Some(entry),
         all_sources |->
            IF source_key # None
            THEN [k \in (DOMAIN h.all_sources) \cup {source_key} |->
                     IF k = source_key THEN entry ELSE h.all_sources[k]]
            ELSE h.all_sources,
         note_counter |-> counter]

\* CitationHistory.add that records previous but never fills all_sources
HistoryAdd_NoLedger(h, metadata, formatted) ==
    LET counter == h.note_counter + 1
        source_key == generate_source_key(metadata)
        entry == HistoryEntry(metadata, formatted, source_key, counter)
    IN  [previous |-> Some(entry),
         all_sources |-> h.all_sources,
         note_counter |-> counter]

HistoryAdd(h, metadata, formatted) ==
    LET counter == h.note_counter + 1
        source_key == generate_source_key(metadata)
        entry == HistoryEntry(metadata, formatted, source_key, counter)
    IN  [previous |-> Some(entry),
         all_sources |->
            IF source_key # None /\ source_key \notin DOMAIN h.all_sources
            THEN [k \in (DOMAIN h.all_sources) \cup {source_key} |->
                     IF k = source_key THEN entry ELSE h.all_sources[k]]
            ELSE h.all_sources,
         note_counter |-> counter]

is_same_as_previous(h, metadata) ==
    IF h.previous = None THEN FALSE
    ELSE sources_match(metadata, h.previous[1].metadata)

has_been_cited_before(h, metadata) ==
    LET source_key == generate_source_key(metadata)
    IN  IF source_key = None THEN FALSE
        ELSE source_key \in DOMAIN h.all_sources

get_previous_metadata(h) ==
    IF h.previous # None THEN Some(h.previous[1].metadata) ELSE None

get_previous_url(h) ==
    IF h.previous # None THEN h.previous[1].metadata.url ELSE <<>>

-----------------------------------------------------------------------------
(* process_document                                                        *)

ProcessedCitation(original, formatted, metadata, url, success, error, form) ==
    [original |-> original, formatted |-> formatted, metadata |-> metadata,
     url |-> url, success |-> success, error |-> error, citation_form |-> form]

\* startswith('http')
StartsWithHttp(text) == text # <<>> /\ Head(text) = "http"

\* Phase 1 for one note; outcome is what get_citation returned for its text
\* (get_citation_with_timeout turns an exception into (None, None)).
fetch_metadata_for_note(note, outcome) ==
    IF is_ibid(note.text)
    THEN [note_id |-> note.note_id, note_type |-> note.note_type,
          original_text |-> note.text, is_explicit_ibid |-> TRUE,
          ibid_page |-> extract_ibid_page(note.text),
          metadata |-> None, formatted |-> <<>>, current_url |-> <<>>,
          error |-> ""]
    ELSE LET meta_url == IF outcome.metadata # None
                         THEN outcome.metadata[1].url ELSE <<>>
             current_url == IF meta_url = <<>> /\ StartsWithHttp(Strip(note.text))
                            THEN Strip(note.text) ELSE meta_url
         IN  [note_id |-> note.note_id, note_type |-> note.note_type,
              original_text |-> note.text, is_explicit_ibid |-> FALSE,
              ibid_page |-> <<>>,
              metadata |-> outcome.metadata, formatted |-> outcome.formatted,
              current_url |-> current_url,
              error |-> IF outcome.metadata # None THEN ""
                        ELSE "No metadata found"]

\* What one pass of the Phase 2 loop body does with a record, given the
\* history before it and whether formatter.format_short raises:
\* the branch entered, the entry appended to results, the text handed to
\* write_endnote / write_footnote (None when nothing is written) and the
\* history afterwards.
Outcome(case, result, write, h) ==
    [case |-> case, result |-> result, write |-> write, history |-> h]

\* a failed entry that reports the resolved citation as its text
Failed_KeepsFormatted(data, error, form) ==
    ProcessedCitation(data.original_text, <<"formatted">>, None, <<>>,
                      FALSE, error, form)

Failed(data, error, form) ==
    ProcessedCitation(data.original_text, data.original_text, None, <<>>,
                      FALSE, error, form)

\* loop body testing has_been_cited_before ahead of is_same_as_previous
Phase2Body_ShortBeforeIbid(data, h, short_raises) ==
    IF data.is_explicit_ibid
    THEN IF get_previous_metadata(h) = None
         THEN Outcome("S0", Failed(data,
                  "ibid reference but no previous citation found", "ibid"),
                  None, h)
         ELSE Outcome("S0",
                  ProcessedCitation(data.original_text,
                      format_ibid(data.ibid_page), get_previous_metadata(h),
                      get_previous_url(h), TRUE, "", "ibid"),
                  Some(format_ibid(data.ibid_page)), h)
    ELSE IF data.metadata = None \/ data.formatted = <<>>
    THEN Outcome("S1", Failed(data, data.error, "full"), None, h)
    ELSE IF data.current_url # <<>> /\ get_previous_url(h) # <<>>
            /\ urls_match(data.current_url, get_previous_url(h))
    THEN Outcome("S2",
             ProcessedCitation(data.original_text, format_ibid(<<>>),
                 get_previous_metadata(h), data.current_url, TRUE, "", "ibid"),
             Some(format_ibid(<<>>)), h)
    ELSE IF has_been_cited_before(h, data.metadata[1])
    THEN IF short_raises
         THEN Outcome("S4", Failed(data, "exception", "full"), None, h)
         ELSE Outcome("S4",
                  ProcessedCitation(data.original_text,
                      format_short(data.metadata[1]), data.metadata,
                      data.current_url, TRUE, "", "short"),
                  Some(format_short(data.metadata[1])),
                  HistoryAdd(h, data.metadata[1], format_short(data.metadata[1])))
    ELSE IF is_same_as_previous(h, data.metadata[1])
    THEN Outcome("S3",
             ProcessedCitation(data.original_text, format_ibid(<<>>),
                 data.metadata, data.current_url, TRUE, "", "ibid"),
             Some(format_ibid(<<>>)),
             HistoryAdd(h, data.metadata[1], format_ibid(<<>>)))
    ELSE Outcome("S5",
             ProcessedCitation(data.original_text, data.formatted,
                 data.metadata, data.current_url, TRUE, "", "full"),
             Some(data.formatted),
             HistoryAdd(h, data.metadata[1], data.formatted))

\* loop body that pushes the previous entry again on a URL ibid
Phase2Body_UrlIbidPushes(data, h, short_raises) ==
    IF data.is_explicit_ibid
    THEN IF get_previous_metadata(h) = None
         THEN Outcome("S0", Failed(data,
                  "ibid reference but no previous citation found", "ibid"),
                  None, h)
         ELSE Outcome("S0",
                  ProcessedCitation(data.original_text,
                      format_ibid(data.ibid_page), get_previous_metadata(h),
                      get_previous_url(h), TRUE, "", "ibid"),
                  Some(format_ibid(data.ibid_page)), h)
    ELSE IF data.metadata = None \/ data.formatted = <<>>
    THEN Outcome("S1", Failed(data, data.error, "full"), None, h)
    ELSE IF data.current_url # <<>> /\ get_previous_url(h) # <<>>
            /\ urls_match(data.current_url, get_previous_url(h))
    THEN Outcome("S2",
             ProcessedCitation(data.original_text, format_ibid(<<>>),
                 get_previous_metadata(h), data.current_url, TRUE, "", "ibid"),
             Some(format_ibid(<<>>)),
             HistoryAdd(h, h.previous[1].metadata, format_ibid(<<>>)))
    ELSE IF is_same_as_previous(h, data.metadata[1])
    THEN Outcome("S3",
             ProcessedCitation(data.original_text, format_ibid(<<>>),
                 data.metadata, data.current_url, TRUE, "", "ibid"),
             Some(format_ibid(<<>>)),
             HistoryAdd(h, data.metadata[1], format_ibid(<<>>)))
    ELSE IF has_been_cited_before(h, data.metadata[1])
    THEN IF short_raises
         THEN Outcome("S4", Failed(data, "exception", "full"), None, h)
         ELSE Outcome("S4",
                  ProcessedCitation(data.original_text,
                      format_short(data.metadata[1]), data.metadata,
                      data.current_url, TRUE, "", "short"),
                  Some(format_short(data.metadata[1])),
                  HistoryAdd(h, data.metadata[1], format_short(data.metadata[1])))
    ELSE Outcome("S5",
             ProcessedCitation(data.original_text, data.formatted,
                 data.metadata, data.current_url, TRUE, "", "full"),
             Some(data.formatted),
             HistoryAdd(h, data.metadata[1], data.formatted))

\* loop body that rewrites an explicit ibid even when there is no previous
\* citation
Phase2Body_IbidNoCheck(data, h, short_raises) ==
    IF data.is_explicit_ibid
    THEN Outcome("S0",
             ProcessedCitation(data.original_text,
                 format_ibid(data.ibid_page), get_previous_metadata(h),
                 get_previous_url(h), TRUE, "", "ibid"),
             Some(format_ibid(data.ibid_page)), h)
    ELSE IF data.metadata = None \/ data.formatted = <<>>
    THEN Outcome("S1", Failed(data, data.error, "full"), None, h)
    ELSE IF data.current_url # <<>> /\ get_previous_url(h) # <<>>
            /\ urls_match(data.current_url, get_previous_url(h))
    THEN Outcome("S2",
             ProcessedCitation(data.original_text, format_ibid(<<>>),
                 get_previous_metadata(h), data.current_url, TRUE, "", "ibid"),
             Some(format_ibid(<<>>)), h)
    ELSE IF is_same_as_previous(h, data.metadata[1])
    THEN Outcome("S3",
             ProcessedCitation(data.original_text, format_ibid(<<>>),
                 data.metadata, data.current_url, TRUE, "", "ibid"),
             Some(format_ibid(<<>>)),
             HistoryAdd(h, data.metadata[1], format_ibid(<<>>)))
    ELSE IF has_been_cited_before(h, data.metadata[1])
    THEN IF short_raises
         THEN Outcome("S4", Failed(data, "exception", "full"), None, h)
         ELSE Outcome("S4",
                  ProcessedCitation(data.original_text,
                      format_short(data.metadata[1]), data.metadata,
                      data.current_url, TRUE, "", "short"),
                  Some(format_short(data.metadata[1])),
                  HistoryAdd(h, data.metadata[1], format_short(data.metadata[1])))
    ELSE Outcome("S5",
             ProcessedCitation(data.original_text, data.formatted,
                 data.metadata, data.current_url, TRUE, "", "full"),
             Some(data.formatted),
             HistoryAdd(h, data.metadata[1], data.formatted))

Phase2Body(data, h, short_raises) ==
    IF data.is_explicit_ibid
    THEN IF get_previous_metadata(h) = None
         THEN Outcome("S0", Failed(data,
                  "ibid reference but no previous citation found", "ibid"),
                  None, h)
         ELSE Outcome("S0",
                  ProcessedCitation(data.original_text,
                      format_ibid(data.ibid_page), get_previous_metadata(h),
                      get_previous_url(h), TRUE, "", "ibid"),
                  Some(format_ibid(data.ibid_page)), h)
    ELSE IF data.metadata = None \/ data.formatted = <<>>
    THEN Outcome("S1", Failed(data, data.error, "full"), None, h)
    ELSE IF data.current_url # <<>> /\ get_previous_url(h) # <<>>
            /\ urls_match(data.current_url, get_previous_url(h))
    THEN Outcome("S2",
             ProcessedCitation(data.original_text, format_ibid(<<>>),
                 get_previous_metadata(h), data.current_url, TRUE, "", "ibid"),
             Some(format_ibid(<<>>)), h)
    ELSE IF is_same_as_previous(h, data.metadata[1])
    THEN Outcome("S3",
             ProcessedCitation(data.original_text, format_ibid(<<>>),
                 data.metadata, data.current_url, TRUE, "", "ibid"),
             Some(format_ibid(<<>>)),
             HistoryAdd(h, data.metadata[1], format_ibid(<<>>)))
    ELSE IF has_been_cited_before(h, data.metadata[1])
    THEN IF short_raises
         THEN Outcome("S4", Failed(data, "exception", "full"), None, h)
         ELSE Outcome("S4",
                  ProcessedCitation(data.original_text,
                      format_short(data.metadata[1]), data.metadata,
                      data.current_url, TRUE, "", "short"),
                  Some(format_short(data.metadata[1])),
                  HistoryAdd(h, data.metadata[1], format_short(data.metadata[1])))
    ELSE Outcome("S5",
             ProcessedCitation(data.original_text, data.formatted,
                 data.metadata, data.current_url, TRUE, "", "full"),
             Some(data.formatted),
             HistoryAdd(h, data.metadata[1], data.formatted))

\* write_endnote / write_footnote on the stored notes: the first note of the
\* part with the given ID gets the new content; ok is whether the XML write
\* went through.  The return value is dropped by process_document.
WriteNote(d, ns, note_type, note_id, content, ok) ==
    LET hits == {i \in 1..Len(ns) :
                    ns[i].note_type = note_type /\ ns[i].note_id = note_id}
    IN  IF ok /\ hits # {}
        THEN LET target == CHOOSE i \in hits : \A j \in hits : i <= j
             IN  [d EXCEPT ![target] = content]
        ELSE d

-----------------------------------------------------------------------------
(* author_date_engine.py: scoring of provider results                      *)
(*                                                                         *)
(* Confidences are counted in hundredths (0.30 is 30): every weight and    *)
(* threshold of the code is a multiple of 0.05.  A year is a string like   *)
(* any other: <<"1977">>, <<"1977", " ">>, <<"n.d.">>, <<>>.               *)

Min(a, b) == IF a <= b THEN a ELSE b
Max(a, b) == IF a >= b THEN a ELSE b

\* a in b for strings
IsSubstring(a, b) ==
    \E i \in 1..(Len(b) + 1) :
        i + Len(a) - 1 <= Len(b) /\ SubSeq(b, i, i + Len(a) - 1) = a

\* int(s): the value of a numeral, blanks around it ignored; ValueError
\* (IntParses false) for anything else
Numerals == {"1976", "1977", "1978", "1979"}

NumeralValue(c) ==
    CASE c = "1976" -> 1976
      [] c = "1977" -> 1977
      [] c = "1978" -> 1978
      [] c = "1979" -> 1979

IntParses(s) == Len(Strip(s)) = 1 /\ Strip(s)[1] \in Numerals
IntOf(s) == NumeralValue(Strip(s)[1])

Abs(n) == IF n < 0 THEN 0 - n ELSE n

\* CitationMetadata, the fields the author-date engine reads
EngineMetadata(title, authors, year, doi, journal, publisher, volume, pages, source_engine) ==
    [title |-> title, authors |-> authors, year |-> year, doi |-> doi,
     journal |-> journal, publisher |-> publisher, volume |-> volume,
     pages |-> pages, source_engine |-> source_engine, raw_source |-> <<>>]

SearchResult(metadata, confidence, match_reason) ==
    [metadata |-> metadata, confidence |-> confidence,
     match_reason |-> match_reason]

Query(author, year, second_author) ==
    [author |-> author, year |-> year, second_author |-> second_author]

AnyAuthorContains(authors, name) ==
    \E i \in 1..Len(authors) : IsSubstring(Lower(name), Lower(authors[i]))

\* _calculate_confidence without the final min(1.0, ...)
calculate_confidence_NoCap(metadata, author, year, second_author) ==
    (IF metadata.year = year THEN 30
     ELSE IF metadata.year # <<>> /\ IntParses(metadata.year) /\ IntParses(year)
             /\ Abs(IntOf(metadata.year) - IntOf(year)) <= 1
     THEN 20 ELSE 0)
    + (IF AnyAuthorContains(metadata.authors, author) THEN 30 ELSE 0)
    + (IF second_author # <<>>
          /\ AnyAuthorContains(metadata.authors, second_author)
       THEN 15 ELSE 0)
    + (IF metadata.doi # <<>> THEN 15 ELSE 0)
    + 5 * ((IF metadata.title # <<>> THEN 1 ELSE 0)
           + (IF metadata.journal # <<>> \/ metadata.publisher # <<>>
              THEN 1 ELSE 0)
           + (IF metadata.volume # <<>> \/ metadata.pages # <<>>
              THEN 1 ELSE 0))

calculate_confidence(metadata, author, year, second_author) ==
    LET year_part ==
            IF metadata.year = year THEN 30
            ELSE IF metadata.year # <<>>
            THEN IF IntParses(metadata.year) /\ IntParses(year)
                    /\ Abs(IntOf(metadata.year) - IntOf(year)) <= 1
                 THEN 20 ELSE 0
            ELSE 0
        author_part ==
            IF metadata.authors # <<>>
            THEN (IF AnyAuthorContains(metadata.authors, author)
                  THEN 30 ELSE 0)
                 + (IF second_author # <<>>
                       /\ AnyAuthorContains(metadata.authors, second_author)
                    THEN 15 ELSE 0)
            ELSE 0
        doi_part == IF metadata.doi # <<>> THEN 15 ELSE 0
        completeness ==
            (IF metadata.title # <<>> THEN 1 ELSE 0)
            + (IF metadata.journal # <<>> \/ metadata.publisher # <<>>
               THEN 1 ELSE 0)
            + (IF metadata.volume # <<>> \/ metadata.pages # <<>>
               THEN 1 ELSE 0)
    IN  Min(100, year_part + author_part + doi_part + completeness * 5)

\* What a provider's engine did with the query: raised, or returned None or
\* a record
Raised == [raises |-> TRUE, metadata |-> None]
Nothing == [raises |-> FALSE, metadata |-> None]
Returned(m) == [raises |-> FALSE, metadata |-> Some(m)]

\* The four provider functions: the list of results (none or one) each adds,
\* given what its engine did.  An exception ends in the except clause.
search_semantic_scholar(response, q) ==
    IF response.raises \/ response.metadata = None THEN <<>>
    ELSE LET metadata == response.metadata[1]
         IN  IF metadata.title # <<>>
             THEN << SearchResult(metadata,
                        calculate_confidence(metadata, q.author, q.year,
                                             q.second_author),
                        "Semantic Scholar author+year match") >>
             ELSE <<>>

\* _search_crossref without the DOI boost
search_crossref_NoBoost(response, q) ==
    IF response.raises \/ response.metadata = None THEN <<>>
    ELSE LET metadata == response.metadata[1]
             confidence == calculate_confidence(metadata, q.author, q.year,
                                                q.second_author)
         IN  IF metadata.title # <<>> /\ metadata.year # <<>>
                /\ metadata.year = q.year
             THEN << SearchResult(metadata, confidence,
                        "Crossref author+year match") >>
             ELSE <<>>

search_crossref(response, q) ==
    IF response.raises \/ response.metadata = None THEN <<>>
    ELSE LET metadata == response.metadata[1]
             confidence == calculate_confidence(metadata, q.author, q.year,
                                                q.second_author)
         IN  IF metadata.title # <<>> /\ metadata.year # <<>>
                /\ metadata.year = q.year
             THEN << SearchResult(metadata,
                        IF metadata.doi # <<>>
                        THEN Min(100, confidence + 10) ELSE confidence,
                        "Crossref author+year match") >>
             ELSE <<>>

search_openalex(response, q) ==
    IF response.raises \/ response.metadata = None THEN <<>>
    ELSE LET metadata == response.metadata[1]
         IN  IF metadata.title # <<>> /\ metadata.year # <<>>
                /\ metadata.year = q.year
             THEN << SearchResult(metadata,
                        calculate_confidence(metadata, q.author, q.year,
                                             q.second_author),
                        "OpenAlex author+year match") >>
             ELSE <<>>

search_google_scholar(response, q) ==
    IF response.raises \/ response.metadata = None THEN <<>>
    ELSE LET metadata == response.metadata[1]
             confidence == calculate_confidence(metadata, q.author, q.year,
                                                q.second_author)
         IN  IF metadata.title # <<>>
             THEN << SearchResult(metadata,
                        IF metadata.doi = <<>>
                        THEN Max(0, confidence - 5) ELSE confidence,
                        "Google Scholar author+year match") >>
             ELSE <<>>

\* the providers in the order search submits them
Providers == <<"semantic_scholar", "crossref", "openalex", "google_scholar">>
ProviderSet == {Providers[i] : i \in 1..Len(Providers)}

search_provider(p, response, q) ==
    CASE p = "semantic_scholar" -> search_semantic_scholar(response, q)
      [] p = "crossref" -> search_crossref(response, q)
      [] p = "openalex" -> search_openalex(response, q)
      [] p = "google_scholar" -> search_google_scholar(response, q)

\* What guess_citation did: raised (or claude_router could not be imported),
\* or returned a dict; has_confidence is whether it holds 'confidence'
GuessRaised == [raises |-> TRUE, guess |-> None]
Guess(has_confidence, confidence, title, authors) ==
    [raises |-> FALSE,
     guess |-> Some([has_confidence |-> has_confidence,
                     confidence |-> confidence, title |-> title,
                     authors |-> authors])]

\* _search_claude that accepts a guess whose authors do not match
search_claude_NoAuthorCheck(outcome, q) ==
    IF outcome.raises THEN <<>>
    ELSE LET guess == outcome.guess[1]
             reported == IF guess.has_confidence THEN guess.confidence ELSE 0
             metadata == EngineMetadata(guess.title, guess.authors, q.year,
                             <<>>, <<>>, <<>>, <<>>, <<>>, <<"Claude AI">>)
         IN  IF reported < 50 THEN <<>>
             ELSE IF metadata.title # <<>>
             THEN << SearchResult(metadata, Min(95, guess.confidence + 10),
                                  "Claude AI contextual match") >>
             ELSE <<>>

\* _search_claude: the list of results (none or one) the oracle adds
search_claude(outcome, q) ==
    IF outcome.raises THEN <<>>
    ELSE LET guess == outcome.guess[1]
             reported == IF guess.has_confidence THEN guess.confidence ELSE 0
             metadata == EngineMetadata(guess.title, guess.authors, q.year,
                             <<>>, <<>>, <<>>, <<>>, <<>>, <<"Claude AI">>)
             authors_match == AnyAuthorContains(metadata.authors, q.author)
         IN  IF reported < 50 THEN <<>>
             ELSE IF metadata.title # <<>> /\ authors_match
             THEN << SearchResult(metadata, Min(95, guess.confidence + 10),
                                  "Claude AI contextual match") >>
             ELSE <<>>

\* results.sort(reverse=True): by confidence, highest first; results of
\* equal confidence keep their order (list.sort is stable, and
\* SearchResult.__lt__ looks at the confidence only)
RECURSIVE InsertDesc(_, _)
InsertDesc(sorted, r) ==
    IF sorted = <<>> THEN <<r>>
    ELSE IF Head(sorted).confidence >= r.confidence
    THEN <<Head(sorted)>> \o InsertDesc(Tail(sorted), r)
    ELSE <<r>> \o sorted

RECURSIVE SortDesc(_)
SortDesc(rs) ==
    IF rs = <<>> THEN <<>>
    ELSE InsertDesc(SortDesc(SubSeq(rs, 1, Len(rs) - 1)), rs[Len(rs)])

\* if best.confidence >= 0.6
is_high_confidence_Strict(confidence) == confidence > 60

is_high_confidence(confidence) == confidence >= 60

\* if year == "n.d."
is_no_date_Never(year) == FALSE

is_no_date(year) == year = <<"n.d.">>

\* one pass of the collect loop over a future that propagates what the
\* provider's engine raised
CollectFuture_Propagates(rs, p, response, q) ==
    [results |-> rs \o search_provider(p, response, q),
     raised |-> response.raises]

\* one pass of the collect loop: the future of provider p has finished, its
\* engine having done `response`; nothing the engine raises gets past the
\* provider function or the loop's except clause
CollectFuture(rs, p, response, q) ==
    [results |-> rs \o search_provider(p, response, q), raised |-> FALSE]

\* best.metadata.raw_source = f"({author}, {year})"
WithRawSource(r, q) ==
    [r EXCEPT !.metadata.raw_source =
        <<"(">> \o q.author \o <<", ">> \o q.year \o <<")">>]

-----------------------------------------------------------------------------
(* Documents and resolver answers the model runs on                        *)

NoMetadata == Metadata(<<>>, <<>>, <<>>, <<>>, <<>>, <<>>)

\* two articles of one site (same URL once the query is cut) ...
ArticleA == Metadata(<<"x">>, <<"http", "a", "?", "1">>, <<>>, <<>>, <<"t">>, <<>>)
ArticleB == Metadata(<<"y">>, <<"http", "a", "?", "2">>, <<>>, <<>>, <<"u">>, <<>>)
\* ... the first of them again, as another provider reports it ...
ArticleA2 == Metadata(<<"doi:", "X">>, <<"http", "b">>, <<>>, <<>>, <<"t">>, <<>>)
\* ... and a record that holds authors and a year only
Bare == NoMetadata

DocMetas == {ArticleA, ArticleB, ArticleA2, Bare}

IbidText == <<"Ibid", ".", ",", " ", "45">>
CiteText == <<"Jones">>
UrlText == <<"http", "a", "/">>
NoteTexts == {IbidText, CiteText, UrlText}

Found(m) == [metadata |-> Some(m), formatted |-> format_full(m)]
NotFound == [metadata |-> None, formatted |-> <<>>]
Unformatted(m) == [metadata |-> Some(m), formatted |-> <<>>]

AllOutcomes ==
    {NotFound, Unformatted(ArticleA)} \cup {Found(m) : m \in DocMetas}

\* the answers of get_citation the model considers for a note text
GetCitationOutcomes(text) ==
    IF text = UrlText THEN {Found(Bare)}
    ELSE IF text = CiteText THEN AllOutcomes
    ELSE {NotFound}

\* get_endnotes followed by get_footnotes: nE endnotes with IDs 1..nE, then
\* the footnotes with IDs 1..
AllNotes(texts, nE) ==
    [i \in 1..Len(texts) |->
        [note_id |-> IF i <= nE THEN i ELSE i - nE,
         note_type |-> IF i <= nE THEN "endnote" ELSE "footnote",
         text |-> texts[i]]]

\* the source-key harness at rest
KeyIdleInit ==
    /\ km1 = NoMetadata
    /\ km2 = NoMetadata
    /\ kstage = "idle"
    /\ key1 = None
    /\ key2 = None
    /\ kmatch = FALSE

\* the URL harness at rest
UrlIdle ==
    /\ u1 = <<>>
    /\ u2 = <<>>
    /\ ustage = "idle"
    /\ nurl1 = <<>>
    /\ nurl2 = <<>>
    /\ umatch = FALSE

\* the Phase 1 executor at rest
P1Idle ==
    /\ answers = <<>>
    /\ tasks = <<>>
    /\ slots = <<>>
    /\ completed = <<>>

\* get_engine before any thread called it
HandleIdle ==
    /\ g_engine = 0
    /\ n_engines = 0
    /\ hnd = <<>>
    /\ n_inst = <<>>
    /\ used = <<>>
    /\ tpc = <<>>
    /\ teng = <<>>
    /\ tprov = <<>>
    /\ tgot = <<>>
    /\ calls_left = <<>>
    /\ havail = {}

\* process_document between calls
EntryIdle ==
    /\ file_bytes = [valid |-> TRUE, content |-> <<>>]
    /\ pack_ok = TRUE
    /\ dret = None
    /\ dexc = ""

\* no notes part loaded
PartIdle ==
    /\ part = <<>>
    /\ part0 = <<>>
    /\ pkind = ""
    /\ pstage = "idle"
    /\ listing = <<>>
    /\ ppos = 0
    /\ plogged = <<>>
    /\ last = None
    /\ faithful = FALSE
    /\ relisting = <<>>

\* no sidecar opened
RelsIdle ==
    /\ rels_file = <<>>
    /\ rstage = "idle"
    /\ relationships = <<>>
    /\ next_id = 1
    /\ url_to_rid = <<>>
    /\ processed_urls = <<>>
    /\ links = <<>>

\* no part handed to the link activator
ActIdle ==
    /\ apara0 = <<>>
    /\ apara = <<>>
    /\ asidecar0 = <<>>
    /\ asidecar = <<>>
    /\ apass = 0
    /\ aprev = None

\* no document handed to the author-date processor
RefsIdle ==
    /\ ref_body0 = <<>>
    /\ ref_body = <<>>
    /\ ref_style = ""
    /\ ref_list = <<>>
    /\ ref_found = None
    /\ ref_new = <<>>
    /\ ref_splices = 0
    /\ ref_prev = None

\* the author-date engine at rest
SearchIdle ==
    /\ sq = Query(<<>>, <<>>, <<>>)
    /\ avail = {}
    /\ spc = "idle"
    /\ handles = {}
    /\ futures = <<>>
    /\ engine_out = [p \in ProviderSet |-> Nothing]
    /\ collected = <<>>
    /\ sresults = <<>>
    /\ guess_out = None
    /\ best = None
    /\ ret = None
    /\ exc = ""

\* the scoring harness at rest
ConfIdle ==
    /\ cq = Query(<<>>, <<>>, <<>>)
    /\ cmeta = EngineMetadata(<<>>, <<>>, <<>>, <<>>, <<>>, <<>>, <<>>, <<>>, <<>>)
    /\ cprov = ""
    /\ cstage = "idle"
    /\ cconf = 0
    /\ cfinal = <<>>

Init ==
    /\ KeyIdleInit
    /\ UrlIdle
    /\ P1Idle
    /\ ConfIdle
    /\ SearchIdle
    /\ HandleIdle
    /\ EntryIdle
    /\ PartIdle
    /\ RelsIdle
    /\ ActIdle
    /\ RefsIdle
    /\ \E n \in 1..MaxNotes : \E texts \in [1..n -> NoteTexts] : \E nE \in 0..n :
          /\ notes = AllNotes(texts, nE)
          /\ doc = texts
    /\ fetched_data = <<>>
    /\ phase = "phase1"
    /\ idx = 0
    /\ history = NewHistory
    /\ results = <<>>
    /\ cases = <<>>

\* Phase 1: executor.map returns one record per note, in note order
FetchAll ==
    /\ phase = "phase1"
    /\ \E outcomes \in [1..Len(notes) -> AllOutcomes] :
          /\ \A i \in 1..Len(notes) :
                outcomes[i] \in GetCitationOutcomes(notes[i].text)
          /\ fetched_data' =
                [i \in 1..Len(notes) |->
                    fetch_metadata_for_note(notes[i], outcomes[i])]
    /\ phase' = "phase2"
    /\ UNCHANGED <<notes, idx, history, results, doc, cases>>
    /\ UNCHANGED <<keyvars, urlvars, p1vars, confvars, searchvars, handlevars, entryvars, partvars, relsvars, actvars, refvars>>

\* a loop that starts the footnotes with a history of their own
ProcessNote_HistoryPerPart ==
    /\ phase = "phase2"
    /\ idx < Len(fetched_data)
    /\ \E short_raises \in BOOLEAN, write_ok \in BOOLEAN :
          LET data == fetched_data[idx + 1]
              h == IF idx > 0 /\ data.note_type # fetched_data[idx].note_type
                   THEN NewHistory ELSE history
              out == Phase2Body(data, h, short_raises)
          IN  /\ history' = out.history
              /\ results' = Append(results, out.result)
              /\ cases' = Append(cases, out.case)
              /\ doc' = IF out.write # None
                        THEN WriteNote(doc, notes, data.note_type, data.note_id,
                                       out.write[1], write_ok)
                        ELSE doc
    /\ idx' = idx + 1
    /\ UNCHANGED <<notes, fetched_data, phase>>
    /\ UNCHANGED <<keyvars, urlvars, p1vars, confvars, searchvars, handlevars, entryvars, partvars, relsvars, actvars, refvars>>

\* Phase 2: one pass of the loop over fetched_data
ProcessNote ==
    /\ phase = "phase2"
    /\ idx < Len(fetched_data)
    /\ \E short_raises \in BOOLEAN, write_ok \in BOOLEAN :
          LET data == fetched_data[idx + 1]
              out == Phase2Body(data, history, short_raises)
          IN  /\ history' = out.history
              /\ results' = Append(results, out.result)
              /\ cases' = Append(cases, out.case)
              /\ doc' = IF out.write # None
                        THEN WriteNote(doc, notes, data.note_type, data.note_id,
                                       out.write[1], write_ok)
                        ELSE doc
    /\ idx' = idx + 1
    /\ UNCHANGED <<notes, fetched_data, phase>>
    /\ UNCHANGED <<keyvars, urlvars, p1vars, confvars, searchvars, handlevars, entryvars, partvars, relsvars, actvars, refvars>>

\* after the loop: save_to_buffer, cleanup, return
Finish ==
    /\ phase = "phase2"
    /\ idx = Len(fetched_data)
    /\ phase' = "done"
    /\ UNCHANGED <<notes, fetched_data, idx, history, results, doc, cases>>
    /\ UNCHANGED <<keyvars, urlvars, p1vars, confvars, searchvars, handlevars, entryvars, partvars, relsvars, actvars, refvars>>

Next == FetchAll \/ ProcessNote \/ Finish

Spec == Init /\ [][Next]_vars

-----------------------------------------------------------------------------
(* process_document with the Phase 1 thread pool spelled out               *)

PARALLEL_WORKERS == 10

\* list(executor.map(fetch_wrapper, all_notes)): the results of the futures
\* in the order the notes were submitted
GatherResults_CompletionOrder(s, c) == [i \in 1..Len(s) |-> s[c[i]][1]]

GatherResults(s, c) == [i \in 1..Len(s) |-> s[i][1]]

InitP1 ==
    /\ KeyIdleInit
    /\ UrlIdle
    /\ ConfIdle
    /\ SearchIdle
    /\ HandleIdle
    /\ EntryIdle
    /\ PartIdle
    /\ RelsIdle
    /\ ActIdle
    /\ RefsIdle
    /\ \E n \in 1..MaxTasks : \E texts \in [1..n -> NoteTexts] : \E nE \in 0..n :
          /\ notes = AllNotes(texts, nE)
          /\ doc = texts
          /\ answers \in [1..n -> AllOutcomes]
          /\ \A i \in 1..n : answers[i] \in GetCitationOutcomes(texts[i])
          /\ tasks = [i \in 1..n |-> "queued"]
          /\ slots = [i \in 1..n |-> None]
    /\ completed = <<>>
    /\ fetched_data = <<>>
    /\ phase = "phase1"
    /\ idx = 0
    /\ history = NewHistory
    /\ results = <<>>
    /\ cases = <<>>

\* a free worker thread takes the next queued call of fetch_wrapper
StartTask ==
    /\ phase = "phase1"
    /\ Cardinality({i \in 1..Len(tasks) : tasks[i] = "running"}) < PARALLEL_WORKERS
    /\ \E i \in 1..Len(tasks) :
          /\ tasks[i] = "queued"
          /\ \A j \in 1..(i - 1) : tasks[j] # "queued"
          /\ tasks' = [tasks EXCEPT ![i] = "running"]
    /\ UNCHANGED <<answers, slots, completed>>
    /\ UNCHANGED <<docvars, keyvars, urlvars, confvars, searchvars, handlevars, entryvars, partvars, relsvars, actvars, refvars>>

\* a running call of fetch_wrapper returns; its future holds the record
CompleteTask ==
    /\ phase = "phase1"
    /\ \E i \in 1..Len(tasks) :
          /\ tasks[i] = "running"
          /\ tasks' = [tasks EXCEPT ![i] = "done"]
          /\ slots' = [slots EXCEPT
                          ![i] = Some(fetch_metadata_for_note(notes[i], answers[i]))]
          /\ completed' = Append(completed, i)
    /\ UNCHANGED answers
    /\ UNCHANGED <<docvars, keyvars, urlvars, confvars, searchvars, handlevars, entryvars, partvars, relsvars, actvars, refvars>>

\* executor.map has yielded every result and the with block is left
GatherPhase1 ==
    /\ phase = "phase1"
    /\ \A i \in 1..Len(tasks) : tasks[i] = "done"
    /\ fetched_data' = GatherResults(slots, completed)
    /\ phase' = "phase2"
    /\ UNCHANGED <<notes, idx, history, results, doc, cases>>
    /\ UNCHANGED <<keyvars, urlvars, p1vars, confvars, searchvars, handlevars, entryvars, partvars, relsvars, actvars, refvars>>

NextP1 == StartTask \/ CompleteTask \/ GatherPhase1 \/ ProcessNote \/ Finish

SpecP1 == InitP1 /\ [][NextP1]_vars

-----------------------------------------------------------------------------
(* The source-key functions applied to bounded inputs                      *)

StrUpTo(syms, n) == UNION {[1..k -> syms] : k \in 0..n}

DoiSyms == {"X", " ", "doi:"}
UrlSyms == {"A", "/", "?"}
TitleSyms == {"T", " "}
CaseNames == {<<>>, <<"C">>}
Citations == {<<>>, <<"1">>}
AuthorLists == {<<>>, << <<"S">> >>}

KeyMetas ==
    {Metadata(d, u, c, ci, t, a) :
        d \in StrUpTo(DoiSyms, MaxDoiLen), u \in StrUpTo(UrlSyms, MaxUrlLen),
        c \in CaseNames, ci \in Citations,
        t \in StrUpTo(TitleSyms, MaxTitleLen), a \in AuthorLists}

\* the second record of a comparison
RefMetas ==
    {Metadata(<<>>, <<>>, <<>>, <<>>, <<>>, <<>>),
     Metadata(<<"x">>, <<"a">>, <<>>, <<>>, <<"t">>, <<>>),
     Metadata(<<" ">>, <<"a", "/">>, <<>>, <<>>, <<>>, <<>>),
     Metadata(<<>>, <<"a">>, <<>>, <<>>, <<>>, <<>>),
     Metadata(<<>>, <<>>, <<"C">>, <<"1">>, <<>>, <<>>),
     Metadata(<<>>, <<>>, <<>>, <<>>, <<"t">>, << <<"S">> >>),
     Metadata(<<>>, <<>>, <<>>, <<>>, <<"t">>, <<>>),
     Metadata(<<>>, <<>>, <<"C">>, <<>>, <<>>, <<>>)}

DocIdle ==
    /\ notes = <<>>
    /\ fetched_data = <<>>
    /\ phase = "idle"
    /\ idx = 0
    /\ history = NewHistory
    /\ results = <<>>
    /\ doc = <<>>
    /\ cases = <<>>

InitKey ==
    /\ DocIdle
    /\ UrlIdle
    /\ P1Idle
    /\ ConfIdle
    /\ SearchIdle
    /\ HandleIdle
    /\ EntryIdle
    /\ PartIdle
    /\ RelsIdle
    /\ ActIdle
    /\ RefsIdle
    /\ km1 \in KeyMetas
    /\ km2 \in RefMetas
    /\ kstage = "in"
    /\ key1 = None
    /\ key2 = None
    /\ kmatch = FALSE

ComputeKeys ==
    /\ kstage = "in"
    /\ kstage' = "out"
    /\ key1' = generate_source_key(km1)
    /\ key2' = generate_source_key(km2)
    /\ kmatch' = sources_match(km1, km2)
    /\ UNCHANGED <<km1, km2>>
    /\ UNCHANGED <<docvars, urlvars, p1vars, confvars, searchvars, handlevars, entryvars, partvars, relsvars, actvars, refvars>>

NextKey == ComputeKeys

SpecKey == InitKey /\ [][NextKey]_vars

-----------------------------------------------------------------------------
(* The URL functions applied to bounded inputs                             *)

UrlChars == {"A", "a", "/", "?", " "}

\* the second URL of a comparison
RefUrls ==
    {<<>>, <<"a">>, <<"a", "/">>, <<"A", "?", "a">>, <<" ">>, <<"a", " ">>}

InitUrl ==
    /\ DocIdle
    /\ KeyIdleInit
    /\ P1Idle
    /\ ConfIdle
    /\ SearchIdle
    /\ HandleIdle
    /\ EntryIdle
    /\ PartIdle
    /\ RelsIdle
    /\ ActIdle
    /\ RefsIdle
    /\ u1 \in StrUpTo(UrlChars, MaxUrlChars)
    /\ u2 \in RefUrls
    /\ ustage = "in"
    /\ nurl1 = <<>>
    /\ nurl2 = <<>>
    /\ umatch = FALSE

NormalizeUrls ==
    /\ ustage = "in"
    /\ ustage' = "out"
    /\ nurl1' = normalize_url(u1)
    /\ nurl2' = normalize_url(u2)
    /\ umatch' = urls_match(u1, u2)
    /\ UNCHANGED <<u1, u2>>
    /\ UNCHANGED <<docvars, keyvars, p1vars, confvars, searchvars, handlevars, entryvars, partvars, relsvars, actvars, refvars>>

NextUrl == NormalizeUrls

SpecUrl == InitUrl /\ [][NextUrl]_vars

-----------------------------------------------------------------------------
(* The scoring functions applied to bounded inputs                         *)

AuthorB == <<"A", " ", "B">>
AuthorS == <<"C", " ", "s">>

ConfMetas ==
    {EngineMetadata(t, a, y, d, j, pu, v, pg, <<>>) :
        t \in {<<>>, <<"T">>},
        a \in {<<>>, <<AuthorB>>, <<AuthorS>>, <<AuthorS, AuthorB>>},
        y \in {<<>>, <<"1976">>, <<"1977">>, <<"1977", " ">>, <<"1979">>,
               <<"n.d.">>},
        d \in {<<>>, <<"x">>},
        j \in {<<>>, <<"J">>}, pu \in {<<>>, <<"P">>},
        v \in {<<>>, <<"1">>}, pg \in {<<>>, <<"2">>}}

ConfQueries ==
    {Query(<<"b">>, <<"1977">>, <<>>), Query(<<"B">>, <<"1977">>, <<"S">>)}

InitConf ==
    /\ DocIdle
    /\ KeyIdleInit
    /\ UrlIdle
    /\ P1Idle
    /\ SearchIdle
    /\ HandleIdle
    /\ EntryIdle
    /\ PartIdle
    /\ RelsIdle
    /\ ActIdle
    /\ RefsIdle
    /\ cq \in ConfQueries
    /\ cmeta \in ConfMetas
    /\ cprov \in ProviderSet
    /\ cstage = "in"
    /\ cconf = 0
    /\ cfinal = <<>>

ScoreResult ==
    /\ cstage = "in"
    /\ cstage' = "out"
    /\ cconf' = calculate_confidence(cmeta, cq.author, cq.year, cq.second_author)
    /\ cfinal' = search_provider(cprov, Returned(cmeta), cq)
    /\ UNCHANGED <<cq, cmeta, cprov>>
    /\ UNCHANGED <<docvars, keyvars, urlvars, p1vars, searchvars, handlevars, entryvars, partvars, relsvars, actvars, refvars>>

NextConf == ScoreResult

SpecConf == InitConf /\ [][NextConf]_vars

-----------------------------------------------------------------------------
(* AuthorDateEngine.search                                                 *)

SearchQueries ==
    {Query(<<"B">>, <<"1977">>, <<>>), Query(<<"B">>, <<"n.d.">>, <<>>)}

\* records a provider's engine may return; tag is the engine's own name
EngineRecords(tag) ==
    {EngineMetadata(<<"T">>, <<AuthorB>>, <<"1977">>, <<"x">>, <<"J">>, <<>>,
                    <<"1">>, <<>>, <<tag>>),
     EngineMetadata(<<"T">>, <<AuthorB>>, <<"1977">>, <<>>, <<"J">>, <<>>,
                    <<"1">>, <<>>, <<tag>>),
     EngineMetadata(<<"T">>, <<>>, <<"1977">>, <<>>, <<>>, <<>>, <<>>, <<>>,
                    <<tag>>),
     EngineMetadata(<<"T">>, <<>>, <<"1977">>, <<"x">>, <<"J">>, <<>>,
                    <<"1">>, <<>>, <<tag>>),
     EngineMetadata(<<"T">>, <<AuthorB>>, <<"1978">>, <<"x">>, <<>>, <<>>,
                    <<>>, <<>>, <<tag>>)}

EngineResponses(p) == {Raised, Nothing} \cup {Returned(m) : m \in EngineRecords(p)}

OracleOutcomes ==
    {GuessRaised,
     Guess(FALSE, 0, <<"T">>, <<AuthorB>>),
     Guess(TRUE, 40, <<"T">>, <<AuthorB>>),
     Guess(TRUE, 50, <<"T">>, <<AuthorB>>),
     Guess(TRUE, 90, <<"T">>, <<AuthorB>>),
     Guess(TRUE, 90, <<"T">>, <<AuthorS>>),
     Guess(TRUE, 90, <<>>, <<AuthorB>>)}

InitSearch ==
    /\ DocIdle
    /\ KeyIdleInit
    /\ UrlIdle
    /\ P1Idle
    /\ ConfIdle
    /\ HandleIdle
    /\ EntryIdle
    /\ PartIdle
    /\ RelsIdle
    /\ ActIdle
    /\ RefsIdle
    /\ sq \in SearchQueries
    /\ avail \in SUBSET ProviderSet
    /\ spc = "call"
    /\ handles = {}
    /\ futures = <<>>
    /\ engine_out = [p \in ProviderSet |-> Nothing]
    /\ collected = <<>>
    /\ sresults = <<>>
    /\ guess_out = None
    /\ best = None
    /\ ret = None
    /\ exc = ""

\* year "n.d.": return None before anything else happens
SearchNoDate ==
    /\ spc = "call"
    /\ is_no_date(sq.year)
    /\ spc' = "returned"
    /\ ret' = None
    /\ UNCHANGED <<sq, avail, handles, futures, engine_out, collected,
                   sresults, guess_out, best, exc>>
    /\ UNCHANGED <<docvars, keyvars, urlvars, p1vars, confvars, handlevars, entryvars, partvars, relsvars, actvars, refvars>>

\* the _get_<provider>() calls and executor.submit for every handle obtained
SubmitAll ==
    /\ spc = "call"
    /\ ~is_no_date(sq.year)
    /\ handles' = avail
    /\ futures' = SelectSeq(Providers, LAMBDA p : p \in avail)
    /\ spc' = "collect"
    /\ UNCHANGED <<sq, avail, engine_out, collected, sresults, guess_out,
                   best, ret, exc>>
    /\ UNCHANGED <<docvars, keyvars, urlvars, p1vars, confvars, handlevars, entryvars, partvars, relsvars, actvars, refvars>>

Uncollected ==
    {futures[i] : i \in 1..Len(futures)}
        \ {collected[i] : i \in 1..Len(collected)}

\* as_completed yields the next finished future, whichever it is
CollectNext ==
    /\ spc = "collect"
    /\ \E p \in Uncollected : \E response \in EngineResponses(p) :
          LET out == CollectFuture(sresults, p, response, sq)
          IN  /\ engine_out' = [engine_out EXCEPT ![p] = response]
              /\ collected' = Append(collected, p)
              /\ sresults' = out.results
              /\ spc' = IF out.raised THEN "raised" ELSE "collect"
              /\ exc' = IF out.raised THEN "ProviderError" ELSE ""
    /\ UNCHANGED <<sq, avail, handles, futures, guess_out, best, ret>>
    /\ UNCHANGED <<docvars, keyvars, urlvars, p1vars, confvars, handlevars, entryvars, partvars, relsvars, actvars, refvars>>

\* the timeout runs out while a task is still unfinished: as_completed
\* raises TimeoutError from the for statement, outside the loop's try
Timeout ==
    /\ spc = "collect"
    /\ Uncollected # {}
    /\ spc' = "raised"
    /\ exc' = "TimeoutError"
    /\ UNCHANGED <<sq, avail, handles, futures, engine_out, collected,
                   sresults, guess_out, best, ret>>
    /\ UNCHANGED <<docvars, keyvars, urlvars, p1vars, confvars, handlevars, entryvars, partvars, relsvars, actvars, refvars>>

\* after the with block: sort, and return the best result if it reaches 0.6
RankProviders ==
    /\ spc = "collect"
    /\ Uncollected = {}
    /\ LET sorted == SortDesc(sresults)
       IN  IF sorted # <<>> /\ is_high_confidence(sorted[1].confidence)
           THEN /\ sresults' = <<WithRawSource(sorted[1], sq)>> \o Tail(sorted)
                /\ best' = Some(WithRawSource(sorted[1], sq))
                /\ ret' = Some(WithRawSource(sorted[1], sq).metadata)
                /\ spc' = "returned"
           ELSE /\ sresults' = sorted
                /\ spc' = "oracle"
                /\ UNCHANGED <<best, ret>>
    /\ UNCHANGED <<sq, avail, handles, futures, engine_out, collected,
                   guess_out, exc>>
    /\ UNCHANGED <<docvars, keyvars, urlvars, p1vars, confvars, handlevars, entryvars, partvars, relsvars, actvars, refvars>>

\* the fallback: _search_claude, then the best of everything or None
AskOracle ==
    /\ spc = "oracle"
    /\ \E outcome \in OracleOutcomes :
          LET sorted == SortDesc(sresults \o search_claude(outcome, sq))
          IN  /\ guess_out' = Some(outcome)
              /\ IF sorted = <<>>
                 THEN /\ sresults' = sorted
                      /\ best' = None
                      /\ ret' = None
                 ELSE /\ sresults' =
                            <<WithRawSource(sorted[1], sq)>> \o Tail(sorted)
                      /\ best' = Some(WithRawSource(sorted[1], sq))
                      /\ ret' = Some(WithRawSource(sorted[1], sq).metadata)
    /\ spc' = "returned"
    /\ UNCHANGED <<sq, avail, handles, futures, engine_out, collected, exc>>
    /\ UNCHANGED <<docvars, keyvars, urlvars, p1vars, confvars, handlevars, entryvars, partvars, relsvars, actvars, refvars>>

NextSearch ==
    SearchNoDate \/ SubmitAll \/ CollectNext \/ Timeout \/ RankProviders
        \/ AskOracle

SpecSearch == InitSearch /\ [][NextSearch]_vars

-----------------------------------------------------------------------------
(* get_engine and the lazy provider handles, with several calling threads  *)

Threads == 1..MaxThreads

\* what the _get_<provider>() methods share: if the handle is None, import
\* the module and construct the engine object, then return the handle
HandleIsNone(h, e, p) == h[e][p] = 0

InitHandles ==
    /\ DocIdle
    /\ KeyIdleInit
    /\ UrlIdle
    /\ P1Idle
    /\ ConfIdle
    /\ SearchIdle
    /\ EntryIdle
    /\ PartIdle
    /\ RelsIdle
    /\ ActIdle
    /\ RefsIdle
    /\ g_engine = 0
    /\ n_engines = 0
    /\ hnd = [e \in Threads |-> [p \in ProviderSet |-> 0]]
    /\ n_inst = [e \in Threads |-> [p \in ProviderSet |-> 0]]
    /\ used = [e \in Threads |-> [p \in ProviderSet |-> {}]]
    /\ tpc = [t \in Threads |-> "start"]
    /\ teng = [t \in Threads |-> 0]
    /\ tprov = [t \in Threads |-> 1]
    /\ tgot = [t \in Threads |-> {}]
    /\ calls_left \in [Threads -> 1..MaxCalls]
    /\ havail \in {ProviderSet, ProviderSet \ {"google_scholar"}}

\* where a thread goes once the handle of provider number tprov[t] is dealt
\* with: the next provider, then the same providers again inside the worker
\* functions, then the end of the call
AfterHandle(t, got) ==
    LET n == Len(Providers)
        k == tprov[t]
        nextk == IF k < n THEN k + 1
                 ELSE CHOOSE j \in (k + 1)..(2 * n + 1) :
                        /\ j = 2 * n + 1 \/ Providers[j - n] \in got
                        /\ \A i \in (k + 1)..(j - 1) : Providers[i - n] \notin got
    IN  IF nextk = 2 * n + 1
        THEN /\ tpc' = [tpc EXCEPT ![t] = "start"]
             /\ tprov' = [tprov EXCEPT ![t] = 1]
             /\ tgot' = [tgot EXCEPT ![t] = {}]
             /\ calls_left' = [calls_left EXCEPT ![t] = @ - 1]
        ELSE /\ tpc' = [tpc EXCEPT ![t] = "get"]
             /\ tprov' = [tprov EXCEPT ![t] = nextk]
             /\ tgot' = [tgot EXCEPT ![t] = got]
             /\ UNCHANGED calls_left

CurrentProvider(t) ==
    IF tprov[t] <= Len(Providers) THEN Providers[tprov[t]]
    ELSE Providers[tprov[t] - Len(Providers)]

\* get_engine: the test "_engine is None"
GetEngineTest(t) ==
    /\ tpc[t] = "start"
    /\ calls_left[t] > 0
    /\ IF g_engine = 0
       THEN /\ tpc' = [tpc EXCEPT ![t] = "make_engine"]
            /\ UNCHANGED teng
       ELSE /\ tpc' = [tpc EXCEPT ![t] = "get"]
            /\ teng' = [teng EXCEPT ![t] = g_engine]
    /\ UNCHANGED <<g_engine, n_engines, hnd, n_inst, used, tprov, tgot,
                   calls_left, havail>>
    /\ UNCHANGED <<docvars, keyvars, urlvars, p1vars, confvars, searchvars, entryvars, partvars, relsvars, actvars, refvars>>

\* get_engine: _engine = AuthorDateEngine(); return _engine
MakeEngine(t) ==
    /\ tpc[t] = "make_engine"
    /\ n_engines' = n_engines + 1
    /\ g_engine' = n_engines + 1
    /\ teng' = [teng EXCEPT ![t] = n_engines + 1]
    /\ tpc' = [tpc EXCEPT ![t] = "get"]
    /\ UNCHANGED <<hnd, n_inst, used, tprov, tgot, calls_left, havail>>
    /\ UNCHANGED <<docvars, keyvars, urlvars, p1vars, confvars, searchvars, entryvars, partvars, relsvars, actvars, refvars>>

\* _get_<provider>: the test "self._<provider> is None"; a stored handle is
\* returned, a failed import leaves None
TestHandle(t) ==
    /\ tpc[t] = "get"
    /\ LET e == teng[t]
           p == CurrentProvider(t)
       IN  IF HandleIsNone(hnd, e, p)
           THEN IF p \in havail
                THEN /\ tpc' = [tpc EXCEPT ![t] = "construct"]
                     /\ UNCHANGED <<used, tprov, tgot, calls_left>>
                ELSE /\ AfterHandle(t, tgot[t])
                     /\ UNCHANGED used
           ELSE /\ used' = [used EXCEPT ![e][p] = @ \cup {hnd[e][p]}]
                /\ AfterHandle(t, tgot[t] \cup {p})
    /\ UNCHANGED <<g_engine, n_engines, hnd, n_inst, teng, havail>>
    /\ UNCHANGED <<docvars, keyvars, urlvars, p1vars, confvars, searchvars, entryvars, partvars, relsvars, actvars, refvars>>

\* _get_<provider>: self._<provider> = <Provider>Engine(); return it
ConstructHandle(t) ==
    /\ tpc[t] = "construct"
    /\ LET e == teng[t]
           p == CurrentProvider(t)
           h == n_inst[e][p] + 1
       IN  /\ n_inst' = [n_inst EXCEPT ![e][p] = h]
           /\ hnd' = [hnd EXCEPT ![e][p] = h]
           /\ used' = [used EXCEPT ![e][p] = @ \cup {h}]
           /\ AfterHandle(t, tgot[t] \cup {p})
    /\ UNCHANGED <<g_engine, n_engines, teng, havail>>
    /\ UNCHANGED <<docvars, keyvars, urlvars, p1vars, confvars, searchvars, entryvars, partvars, relsvars, actvars, refvars>>

NextHandles ==
    \E t \in Threads :
        GetEngineTest(t) \/ MakeEngine(t) \/ TestHandle(t) \/ ConstructHandle(t)

SpecHandles == InitHandles /\ [][NextHandles]_vars

-----------------------------------------------------------------------------
(* process_document from its argument to its return                        *)

\* the bytes handed in: a zip archive holding notes, or something else
InputFiles ==
    {[valid |-> FALSE, content |-> <<>>]}
    \cup {[valid |-> TRUE, content |-> texts] :
             texts \in UNION {[1..n -> NoteTexts] : n \in 1..MaxNotes}}

InitDoc ==
    /\ KeyIdleInit
    /\ UrlIdle
    /\ P1Idle
    /\ ConfIdle
    /\ SearchIdle
    /\ HandleIdle
    /\ PartIdle
    /\ RelsIdle
    /\ ActIdle
    /\ RefsIdle
    /\ file_bytes \in InputFiles
    /\ pack_ok = TRUE
    /\ dret = None
    /\ dexc = ""
    /\ notes = <<>>
    /\ doc = <<>>
    /\ fetched_data = <<>>
    /\ phase = "load"
    /\ idx = 0
    /\ history = NewHistory
    /\ results = <<>>
    /\ cases = <<>>

\* WordDocumentProcessor(BytesIO(file_bytes)), get_endnotes, get_footnotes:
\* ZipFile raises BadZipFile for bytes that are no archive, and nothing
\* around the constructor catches it
LoadDocument ==
    /\ phase = "load"
    /\ IF file_bytes.valid
       THEN /\ \E nE \in 0..Len(file_bytes.content) :
                  notes' = AllNotes(file_bytes.content, nE)
            /\ doc' = file_bytes.content
            /\ phase' = "phase1"
            /\ dexc' = dexc
       ELSE /\ dexc' = "BadZipFile"
            /\ phase' = "raised"
            /\ UNCHANGED <<notes, doc>>
    /\ UNCHANGED <<fetched_data, idx, history, results, cases>>
    /\ UNCHANGED <<file_bytes, pack_ok, dret>>
    /\ UNCHANGED <<keyvars, urlvars, p1vars, confvars, searchvars, handlevars, partvars, relsvars, actvars, refvars>>

\* after the loop: save_to_buffer writes the archive (an OSError of zipfile
\* propagates), LinkActivator.process keeps its input on any error of its
\* own, then cleanup and return
SaveDocument ==
    /\ phase = "phase2"
    /\ idx = Len(fetched_data)
    /\ \E ok \in BOOLEAN :
          /\ pack_ok' = ok
          /\ IF ok
             THEN /\ dret' = Some([bytes |-> [valid |-> TRUE, content |-> doc],
                                   results |-> results])
                  /\ phase' = "done"
                  /\ dexc' = dexc
             ELSE /\ dexc' = "OSError"
                  /\ phase' = "raised"
                  /\ dret' = dret
    /\ UNCHANGED <<notes, fetched_data, idx, history, results, doc, cases>>
    /\ UNCHANGED file_bytes
    /\ UNCHANGED <<keyvars, urlvars, p1vars, confvars, searchvars, handlevars, partvars, relsvars, actvars, refvars>>

NextDoc == LoadDocument \/ FetchAll \/ ProcessNote \/ SaveDocument

SpecDoc == InitDoc /\ [][NextDoc]_vars

-----------------------------------------------------------------------------
(* WordDocumentProcessor: the notes part (endnotes.xml or footnotes.xml)   *)
(*                                                                         *)
(* A part is the sequence of its note elements; a note has its w:id        *)
(* attribute and its paragraphs; a paragraph is the sequence of its child  *)
(* elements.  A child carries its tag, the style it names, whether it      *)
(* holds the note-reference mark, whether it is italic, and the text of    *)
(* the w:t elements below it.                                              *)

XmlChild(tag, style, ref, italic, text) ==
    [tag |-> tag, style |-> style, ref |-> ref, italic |-> italic, text |-> text]

XmlPPr(style) == XmlChild("pPr", style, FALSE, FALSE, <<>>)
XmlRefRun(style) == XmlChild("r", style, TRUE, FALSE, <<>>)
XmlRun(text, italic) == XmlChild("r", "", FALSE, italic, text)
XmlHyperlink(text) == XmlChild("hyperlink", "", FALSE, FALSE, text)

XmlNote(id, paras) == [id |-> id, paras |-> paras]

\* "EndnoteReference" / "FootnoteReference"
RefStyle(kind) == IF kind = "endnote" THEN "EndnoteReference" ELSE "FootnoteReference"

\* int(note_id): the attribute values the model uses, "x" standing for
\* anything int() rejects
NoteIdStrings == {"-1", "0", "1", "2", "x"}

IdIsInt(s) == s # "x"

IdValue(s) ==
    CASE s = "-1" -> 0 - 1
      [] s = "0" -> 0
      [] s = "1" -> 1
      [] s = "2" -> 2

RECURSIVE Concat(_)
Concat(ss) == IF ss = <<>> THEN <<>> ELSE Head(ss) \o Concat(Tail(ss))

\* the texts of all w:t below a paragraph, joined
ParaText(para) == Concat([i \in 1..Len(para) |-> para[i].text])

\* "".join(text_parts).strip() over every w:t below the note
NoteText(note) ==
    Strip(Concat([i \in 1..Len(note.paras) |-> ParaText(note.paras[i])]))

\* get_endnotes that lists every note element, system notes included
RECURSIVE get_notes_NoSkip(_)
get_notes_NoSkip(p) ==
    IF p = <<>> THEN <<>>
    ELSE LET note == Head(p)
             rest == get_notes_NoSkip(Tail(p))
         IN  IF NoteText(note) # <<>>
             THEN <<[id |-> note.id, text |-> NoteText(note)]>> \o rest
             ELSE rest

\* get_endnotes / get_footnotes
RECURSIVE get_notes(_)
get_notes(p) ==
    IF p = <<>> THEN <<>>
    ELSE LET note == Head(p)
             rest == get_notes(Tail(p))
         IN  IF ~IdIsInt(note.id) THEN rest
             ELSE IF IdValue(note.id) < 1 THEN rest
             ELSE IF NoteText(note) # <<>>
             THEN <<[id |-> note.id, text |-> NoteText(note)]>> \o rest
             ELSE rest

\* html.unescape
Unescape(s) == [i \in 1..Len(s) |-> IF s[i] = "&amp;" THEN "&" ELSE s[i]]

\* position of the first sym in s at or after from, 0 if there is none
FirstIndex(s, sym, from) ==
    IF \E i \in from..Len(s) : s[i] = sym
    THEN CHOOSE i \in from..Len(s) :
            s[i] = sym /\ \A j \in from..(i - 1) : s[j] # sym
    ELSE 0

\* re.split(r'(<i>.*?</i>)', text) and the loop over its parts: one run per
\* non-empty part, italic for a part that is an <i>...</i> group
RECURSIVE ContentRuns(_)
ContentRuns(s) ==
    LET open == FirstIndex(s, "<i>", 1)
        close == IF open = 0 THEN 0 ELSE FirstIndex(s, "</i>", open + 1)
    IN  IF s = <<>> THEN <<>>
        ELSE IF close = 0 THEN <<XmlRun(s, FALSE)>>
        ELSE (IF open > 1 THEN <<XmlRun(SubSeq(s, 1, open - 1), FALSE)>> ELSE <<>>)
             \o <<XmlRun(SubSeq(s, open + 1, close - 1), TRUE)>>
             \o ContentRuns(SubSeq(s, close + 1, Len(s)))

\* the children write_endnote keeps: pPr and runs holding the reference mark
IsPreserved(child) == child.tag = "pPr" \/ (child.tag = "r" /\ child.ref)

\* position of the last pPr among the children, 0 if there is none
LastPPr(children) ==
    IF \E i \in 1..Len(children) : children[i].tag = "pPr"
    THEN CHOOSE i \in 1..Len(children) :
            children[i].tag = "pPr"
            /\ \A j \in (i + 1)..Len(children) : children[j].tag # "pPr"
    ELSE 0

\* the else branch of "if para is None": strip the paragraph down to what is
\* preserved and make sure it has a reference run
PreserveAndSynthesize(para, kind) ==
    LET kept == SelectSeq(para, IsPreserved)
        at == LastPPr(kept)
    IN  IF \E i \in 1..Len(kept) : kept[i].ref
        THEN kept
        ELSE SubSeq(kept, 1, at) \o <<XmlRefRun(RefStyle(kind))>>
             \o SubSeq(kept, at + 1, Len(kept))

\* the note after the write: its first paragraph rebuilt, or a new paragraph
\* appended when it had none
RewrittenNote(note, kind, new_content) ==
    LET runs == ContentRuns(Unescape(new_content))
    IN  IF note.paras = <<>>
        THEN XmlNote(note.id, <<runs>>)
        ELSE XmlNote(note.id,
                 <<PreserveAndSynthesize(note.paras[1], kind) \o runs>>
                 \o Tail(note.paras))

\* positions of the notes whose w:id equals str(note_id)
NotesWithId(p, note_id) == {i \in 1..Len(p) : p[i].id = note_id}

\* a write that leaves the stripped tree behind when it fails
write_note_DirtyOnFailure(p, kind, note_id, new_content, raises) ==
    LET hits == NotesWithId(p, note_id)
    IN  IF hits = {} THEN [ok |-> FALSE, part |-> p]
        ELSE LET target == CHOOSE i \in hits : \A j \in hits : i <= j
             IN  IF raises
                 THEN [ok |-> FALSE,
                       part |-> [p EXCEPT ![target] =
                                    RewrittenNote(p[target], kind, <<>>)]]
                 ELSE [ok |-> TRUE,
                       part |-> [p EXCEPT ![target] =
                                    RewrittenNote(p[target], kind, new_content)]]

\* a write that rebuilds every note from the target on
write_note_RewritesFollowing(p, kind, note_id, new_content, raises) ==
    LET hits == NotesWithId(p, note_id)
    IN  IF hits = {} \/ raises THEN [ok |-> FALSE, part |-> p]
        ELSE LET target == CHOOSE i \in hits : \A j \in hits : i <= j
             IN  [ok |-> TRUE,
                  part |-> [i \in 1..Len(p) |->
                               IF i >= target
                               THEN RewrittenNote(p[i], kind, new_content)
                               ELSE p[i]]]

\* write_endnote / write_footnote: the returned flag and the part as stored
\* afterwards.  The tree is parsed from the file and written back only at
\* the end, so a call that returns False (no such note, or an exception on
\* the way, raises) leaves the file as it was.
write_note(p, kind, note_id, new_content, raises) ==
    LET hits == NotesWithId(p, note_id)
    IN  IF hits = {} \/ raises THEN [ok |-> FALSE, part |-> p]
        ELSE LET target == CHOOSE i \in hits : \A j \in hits : i <= j
             IN  [ok |-> TRUE,
                  part |-> [p EXCEPT ![target] =
                               RewrittenNote(p[target], kind, new_content)]]

\* html_to_word_xml: one styled paragraph with the reference run, a blank
\* and the content runs
html_to_word_xml(html, kind) ==
    <<XmlPPr(IF kind = "footnote" THEN "FootnoteText" ELSE "EndnoteText"),
      XmlRefRun(RefStyle(kind)),
      XmlRun(<<" ">>, FALSE)>>
    \o ContentRuns(Unescape(html))

\* update_document_note on the part: re.subn replaces the content of every
\* note element whose w:id is the given number
update_document_note(p, kind, note_id, new_html) ==
    [i \in 1..Len(p) |->
        IF p[i].id = note_id
        THEN XmlNote(p[i].id, <<html_to_word_xml(new_html, kind)>>)
        ELSE p[i]]

-----------------------------------------------------------------------------
(* The notes part read, rewritten note by note, and read again             *)

\* paragraph properties and reference run as a document brings them
OrigPPr == XmlPPr("NoteText")
OrigRef == XmlRefRun("NoteReference")

\* note bodies: none, the usual paragraph, a paragraph without reference
\* run, an italic run and a bookmark, two paragraphs, a separator
NoteBodies ==
    { <<>>,
      << <<OrigPPr, OrigRef, XmlRun(<<" ", "A">>, FALSE)>> >>,
      << <<OrigPPr, XmlRun(<<"B">>, FALSE), XmlHyperlink(<<"A">>)>> >>,
      << <<XmlRun(<<"A">>, TRUE), XmlChild("bookmarkStart", "", FALSE, FALSE, <<>>)>> >>,
      << <<OrigPPr, OrigRef, XmlRun(<<"A">>, FALSE)>>, <<XmlRun(<<"B">>, FALSE)>> >>,
      << <<OrigPPr, XmlChild("r", "", FALSE, FALSE, <<>>)>> >> }

\* parts of up to MaxPartNotes notes with distinct IDs
Parts ==
    {p \in UNION {[1..n -> {XmlNote(id, b) : id \in NoteIdStrings, b \in NoteBodies}] :
                     n \in 1..MaxPartNotes} :
        \A i \in 1..Len(p) : \A j \in 1..Len(p) : i # j => p[i].id # p[j].id}

\* texts handed to a write: an ibid, a citation with an italic title, one
\* with an escaped ampersand
WriteContents ==
    { <<"Ibid">>, <<"<i>", "A", "</i>", "B">>, <<"A", "&amp;", "B">> }

LastWrite(caller, id, content, ok) ==
    Some([caller |-> caller, id |-> id, content |-> content, ok |-> ok])

InitPart ==
    /\ DocIdle
    /\ KeyIdleInit
    /\ UrlIdle
    /\ P1Idle
    /\ ConfIdle
    /\ SearchIdle
    /\ HandleIdle
    /\ EntryIdle
    /\ RelsIdle
    /\ ActIdle
    /\ RefsIdle
    /\ part \in Parts
    /\ part0 = part
    /\ pkind \in {"endnote", "footnote"}
    /\ pstage = "start"
    /\ listing = <<>>
    /\ ppos = 0
    /\ plogged = <<>>
    /\ last = None
    /\ faithful = TRUE
    /\ relisting = <<>>

\* process_document: endnotes = processor.get_endnotes() (get_footnotes)
ReadNotes ==
    /\ pstage = "start"
    /\ listing' = get_notes(part)
    /\ pstage' = "loop"
    /\ UNCHANGED <<part, part0, pkind, ppos, plogged, last, faithful, relisting>>
    /\ UNCHANGED <<docvars, keyvars, urlvars, p1vars, confvars, searchvars, handlevars, entryvars, relsvars, actvars, refvars>>

\* one pass of the Phase 2 loop as the part sees it: the note is written
\* with the text chosen for it and the returned flag is dropped, or (a note
\* that failed) nothing is written; either way a result is appended and the
\* loop goes on
RewriteNote ==
    /\ pstage = "loop"
    /\ ppos < Len(listing)
    /\ LET entry == listing[ppos + 1]
       IN  /\ \/ /\ UNCHANGED part
                 /\ last' = LastWrite("none", entry.id, <<>>, FALSE)
                 /\ faithful' = FALSE
              \/ \E content \in WriteContents \cup {entry.text} :
                 \E raises \in BOOLEAN :
                    LET w == write_note(part, pkind, entry.id, content, raises)
                    IN  /\ part' = w.part
                        /\ last' = LastWrite("phase2", entry.id, content, w.ok)
                        /\ faithful' = (faithful /\ w.ok /\ content = entry.text)
           /\ plogged' = Append(plogged, entry.id)
    /\ ppos' = ppos + 1
    /\ UNCHANGED <<part0, pkind, pstage, listing, relisting>>
    /\ UNCHANGED <<docvars, keyvars, urlvars, p1vars, confvars, searchvars, handlevars, entryvars, relsvars, actvars, refvars>>

\* write_endnote / write_footnote called on its own with any ID
WriteDirect ==
    /\ pstage = "start"
    /\ \E id \in NoteIdStrings : \E content \in WriteContents :
       \E raises \in BOOLEAN :
          LET w == write_note(part, pkind, id, content, raises)
          IN  /\ part' = w.part
              /\ last' = LastWrite("direct", id, content, w.ok)
    /\ faithful' = FALSE
    /\ pstage' = "direct"
    /\ UNCHANGED <<part0, pkind, listing, ppos, plogged, relisting>>
    /\ UNCHANGED <<docvars, keyvars, urlvars, p1vars, confvars, searchvars, handlevars, entryvars, relsvars, actvars, refvars>>

\* update_document_note(doc_bytes, note_id, new_html), note_id an int
UpdateNote ==
    /\ pstage = "start"
    /\ \E id \in {s \in NoteIdStrings : IdIsInt(s)} : \E html \in WriteContents :
          /\ part' = update_document_note(part, pkind, id, html)
          /\ last' = LastWrite("update", id, html, TRUE)
    /\ faithful' = FALSE
    /\ pstage' = "direct"
    /\ UNCHANGED <<part0, pkind, listing, ppos, plogged, relisting>>
    /\ UNCHANGED <<docvars, keyvars, urlvars, p1vars, confvars, searchvars, handlevars, entryvars, relsvars, actvars, refvars>>

\* the notes enumerated again from the part as it now is
ReadAgain ==
    /\ \/ pstage = "loop" /\ ppos = Len(listing)
       \/ pstage = "direct"
    /\ relisting' = get_notes(part)
    /\ pstage' = "done"
    /\ UNCHANGED <<part, part0, pkind, listing, ppos, plogged, last, faithful>>
    /\ UNCHANGED <<docvars, keyvars, urlvars, p1vars, confvars, searchvars, handlevars, entryvars, relsvars, actvars, refvars>>

NextPart == ReadNotes \/ RewriteNote \/ WriteDirect \/ UpdateNote \/ ReadAgain

SpecPart == InitPart /\ [][NextPart]_vars

-----------------------------------------------------------------------------
(* RelsManager and the URL activation of LinkActivator                     *)
(*                                                                         *)
(* A relationship ID is kept as the text before its number and the number  *)
(* text: "rId7" is Rid("rId", "7").  A dict is a function on its keys.     *)

Rid(pre, num) == [pre |-> pre, num |-> num]

\* str(n) for the IDs the manager issues
Decimal == <<"1", "2", "3", "4", "5", "6", "7", "8", "9">>

\* int(r_id[3:]): the number texts int() accepts; "02" is 2, anything else
\* ("x", "") raises ValueError
TokenParses(t) == t = "02" \/ \E n \in 1..Len(Decimal) : Decimal[n] = t

TokenValue(t) ==
    IF t = "02" THEN 2 ELSE CHOOSE n \in 1..Len(Decimal) : Decimal[n] = t

HYPERLINK_TYPE == "hyperlink"

Relationship(id, type, target, mode) ==
    [id |-> id, type |-> type, target |-> target, mode |-> mode]

\* d[k] = v
DictSet(d, k, v) == [x \in DOMAIN d \cup {k} |-> IF x = k THEN v ELSE d[x]]

Manager(rels, nid, urls) ==
    [relationships |-> rels, next_id |-> nid, url_to_rid |-> urls]

\* RelsManager._load: the loop over the Relationship elements of the file
RECURSIVE LoadInto(_, _)
LoadInto(m, file) ==
    IF file = <<>> THEN m
    ELSE LET rel == Head(file)
             rels == DictSet(m.relationships, rel.id,
                         [type |-> rel.type, target |-> rel.target, mode |-> rel.mode])
             urls == IF rel.type = HYPERLINK_TYPE
                     THEN DictSet(m.url_to_rid, rel.target, rel.id)
                     ELSE m.url_to_rid
             nid == IF rel.id.pre = "rId" /\ TokenParses(rel.id.num)
                       /\ TokenValue(rel.id.num) >= m.next_id
                    THEN TokenValue(rel.id.num) + 1
                    ELSE m.next_id
         IN  LoadInto(Manager(rels, nid, urls), Tail(file))

\* a manager that numbers a new relationship by the count of the entries
add_hyperlink_CountsEntries(m, url) ==
    IF url \in DOMAIN m.url_to_rid
    THEN [r_id |-> m.url_to_rid[url], manager |-> m]
    ELSE LET r_id == Rid("rId", Decimal[Cardinality(DOMAIN m.relationships) + 1])
         IN  [r_id |-> r_id,
              manager |-> Manager(
                  DictSet(m.relationships, r_id,
                      [type |-> HYPERLINK_TYPE, target |-> url, mode |-> "External"]),
                  m.next_id + 1,
                  DictSet(m.url_to_rid, url, r_id))]

\* a manager that records a new hyperlink relationship without a target mode
add_hyperlink_NoMode(m, url) ==
    IF url \in DOMAIN m.url_to_rid
    THEN [r_id |-> m.url_to_rid[url], manager |-> m]
    ELSE LET r_id == Rid("rId", Decimal[m.next_id])
         IN  [r_id |-> r_id,
              manager |-> Manager(
                  DictSet(m.relationships, r_id,
                      [type |-> HYPERLINK_TYPE, target |-> url, mode |-> ""]),
                  m.next_id + 1,
                  DictSet(m.url_to_rid, url, r_id))]

\* RelsManager.add_hyperlink: the ID returned and the manager afterwards
add_hyperlink(m, url) ==
    IF url \in DOMAIN m.url_to_rid
    THEN [r_id |-> m.url_to_rid[url], manager |-> m]
    ELSE LET r_id == Rid("rId", Decimal[m.next_id])
         IN  [r_id |-> r_id,
              manager |-> Manager(
                  DictSet(m.relationships, r_id,
                      [type |-> HYPERLINK_TYPE, target |-> url, mode |-> "External"]),
                  m.next_id + 1,
                  DictSet(m.url_to_rid, url, r_id))]

\* url.rstrip('.,;:)]\'"')
RECURSIVE CleanUrl(_)
CleanUrl(url) ==
    IF url # <<>> /\ url[Len(url)] \in {".", ",", ";", ":", ")", "]", "'", "\""}
    THEN CleanUrl(SubSeq(url, 1, Len(url) - 1))
    ELSE url

\* IDs found in a sidecar: numbered ones, one with a leading zero, one
\* without a number, one of another scheme
RelIds ==
    {Rid("rId", "1"), Rid("rId", "3"), Rid("rId", "02"), Rid("rId", "x"),
     Rid("docRel", "")}

\* link targets that differ in letter case or a trailing slash only
LinkUrls == {<<"A">>, <<"a">>, <<"a", "/">>}

\* what URL_PATTERN matches in a run: a URL, possibly with a full stop
FoundUrls == LinkUrls \cup {<<"a", ".">>}

\* the Relationship elements a sidecar may hold
FileRelationships ==
    {Relationship(id, HYPERLINK_TYPE, u, "External") : id \in RelIds, u \in LinkUrls}
    \cup {Relationship(id, "styles", <<"styles.xml">>, "") : id \in RelIds}

\* sidecars of up to MaxRels entries with distinct IDs
RelsFiles ==
    {f \in UNION {[1..n -> FileRelationships] : n \in 0..MaxRels} :
        \A i \in 1..Len(f) : \A j \in 1..Len(f) : i # j => f[i].id # f[j].id}

InitRels ==
    /\ DocIdle
    /\ KeyIdleInit
    /\ UrlIdle
    /\ P1Idle
    /\ ConfIdle
    /\ SearchIdle
    /\ HandleIdle
    /\ EntryIdle
    /\ PartIdle
    /\ ActIdle
    /\ RefsIdle
    /\ rels_file \in RelsFiles
    /\ rstage = "file"
    /\ relationships = <<>>
    /\ next_id = 1
    /\ url_to_rid = <<>>
    /\ processed_urls = <<>>
    /\ links = <<>>

\* RelsManager(rels_path): __init__ and _load
LoadRels ==
    /\ rstage = "file"
    /\ LET m == LoadInto(Manager(<<>>, 1, <<>>), rels_file)
       IN  /\ relationships' = m.relationships
           /\ next_id' = m.next_id
           /\ url_to_rid' = m.url_to_rid
    /\ rstage' = "loaded"
    /\ UNCHANGED <<rels_file, processed_urls, links>>
    /\ UNCHANGED <<docvars, keyvars, urlvars, p1vars, confvars, searchvars, handlevars, entryvars, partvars, actvars, refvars>>

\* _process_paragraph for one URL match: clean it, take its rId from the
\* cache or from add_hyperlink, create the w:hyperlink element
ActivateUrl ==
    /\ rstage = "loaded"
    /\ Len(links) < MaxLinks
    /\ \E url \in FoundUrls :
          LET clean_url == CleanUrl(url)
              added == add_hyperlink(
                           Manager(relationships, next_id, url_to_rid), clean_url)
          IN  IF clean_url \in DOMAIN processed_urls
              THEN /\ links' = Append(links,
                          [url |-> clean_url, r_id |-> processed_urls[clean_url]])
                   /\ UNCHANGED <<relationships, next_id, url_to_rid, processed_urls>>
              ELSE /\ relationships' = added.manager.relationships
                   /\ next_id' = added.manager.next_id
                   /\ url_to_rid' = added.manager.url_to_rid
                   /\ processed_urls' = DictSet(processed_urls, clean_url, added.r_id)
                   /\ links' = Append(links, [url |-> clean_url, r_id |-> added.r_id])
    /\ UNCHANGED <<rels_file, rstage>>
    /\ UNCHANGED <<docvars, keyvars, urlvars, p1vars, confvars, searchvars, handlevars, entryvars, partvars, actvars, refvars>>

NextRels == LoadRels \/ ActivateUrl

SpecRels == InitRels /\ [][NextRels]_vars

-----------------------------------------------------------------------------
(* LinkActivator: plain-text URLs of a part turned into hyperlinks         *)

\* A child of a paragraph: a run (w:r) or a hyperlink (w:hyperlink) holding
\* one run.  rpr is None when there is no w:rPr, else the set of the
\* property names in it; texts are the texts of the w:t children in order;
\* r_id is the r:id attribute of a hyperlink.
Elem(tag, rpr, texts, r_id) ==
    [tag |-> tag, rpr |-> rpr, texts |-> texts, r_id |-> r_id]

\* URL_PATTERN, https?://[^\s<>"\']+ : true of the characters a match
\* continues over
IsUrlChar(c) == c # " "

\* start of the first match at or after position from, 0 when there is none
NextMatch(text, from) ==
    LET starts == {i \in from..(Len(text) - 1) :
                      text[i] = "http://" /\ IsUrlChar(text[i + 1])}
    IN  IF starts = {} THEN 0
        ELSE CHOOSE i \in starts : \A j \in starts : i <= j

\* last position of the match that starts at s (the pattern is greedy)
MatchEnd(text, s) ==
    CHOOSE e \in (s + 1)..Len(text) :
        /\ \A k \in (s + 1)..e : IsUrlChar(text[k])
        /\ e = Len(text) \/ ~IsUrlChar(text[e + 1])

\* LinkActivator._create_run
create_run(text, rpr) == Elem("r", rpr, <<text>>, None)

\* LinkActivator._create_hyperlink_run inside the w:hyperlink element that
\* _process_paragraph builds around it
create_hyperlink(r_id, url, rpr) ==
    Elem("hyperlink",
         Some(((IF rpr = None THEN {} ELSE rpr[1]) \ {"color", "u"})
              \cup {"color", "u"}),
         <<url>>, Some(r_id))

\* the loop over the matches of one run and the text after the last one:
\* last_end characters of the text are already emitted, the next match is
\* looked for from position from
RECURSIVE new_elements(_, _, _, _, _, _)
new_elements(text, rpr, last_end, from, m, cache) ==
    LET s == NextMatch(text, from)
    IN  IF s = 0
        THEN [elems |-> IF last_end < Len(text)
                        THEN <<create_run(SubSeq(text, last_end + 1, Len(text)), rpr)>>
                        ELSE <<>>,
              manager |-> m, cache |-> cache]
        ELSE LET e == MatchEnd(text, s)
                 url == SubSeq(text, s, e)
                 clean_url == CleanUrl(url)
                 trailing == Len(url) - Len(clean_url)
                 before == IF s - 1 > last_end
                           THEN <<create_run(SubSeq(text, last_end + 1, s - 1), rpr)>>
                           ELSE <<>>
                 got == IF clean_url \in DOMAIN cache
                        THEN [r_id |-> cache[clean_url], manager |-> m]
                        ELSE add_hyperlink(m, clean_url)
                 rest == new_elements(text, rpr, e - trailing, e + 1, got.manager,
                             DictSet(cache, clean_url, got.r_id))
             IN  [elems |-> before \o <<create_hyperlink(got.r_id, clean_url, rpr)>>
                            \o rest.elems,
                  manager |-> rest.manager, cache |-> rest.cache]

\* a loop body that inserts the new elements and leaves the run in place
process_run_KeepsRun(child, m, cache) ==
    IF child.tag # "r" \/ child.texts = <<>> \/ child.texts[1] = <<>>
       \/ NextMatch(child.texts[1], 1) = 0
    THEN [elems |-> <<child>>, manager |-> m, cache |-> cache]
    ELSE LET r == new_elements(child.texts[1], child.rpr, 0, 1, m, cache)
         IN  [elems |-> r.elems \o <<child>>, manager |-> r.manager, cache |-> r.cache]

\* the body of the loop of LinkActivator._process_paragraph for one child:
\* the elements that stand in its place afterwards
process_run(child, m, cache) ==
    IF child.tag # "r" \/ child.texts = <<>> \/ child.texts[1] = <<>>
       \/ NextMatch(child.texts[1], 1) = 0
    THEN [elems |-> <<child>>, manager |-> m, cache |-> cache]
    ELSE new_elements(child.texts[1], child.rpr, 0, 1, m, cache)

\* LinkActivator._process_paragraph: the loop over the direct children
RECURSIVE process_paragraph(_, _, _)
process_paragraph(children, m, cache) ==
    IF children = <<>> THEN [elems |-> <<>>, manager |-> m, cache |-> cache]
    ELSE LET r == process_run(Head(children), m, cache)
             rest == process_paragraph(Tail(children), r.manager, r.cache)
         IN  [elems |-> r.elems \o rest.elems,
              manager |-> rest.manager, cache |-> rest.cache]

\* RelsManager.save: the Relationship elements in the order of
\* (len(id), id); the IDs in the sidecars of this part are "rId" and one
\* digit, which that order puts in the order of the digits
RECURSIVE save(_)
save(rels) ==
    IF DOMAIN rels = {} THEN <<>>
    ELSE LET id == CHOOSE i \in DOMAIN rels :
                      \A j \in DOMAIN rels : TokenValue(i.num) <= TokenValue(j.num)
         IN  <<Relationship(id, rels[id].type, rels[id].target, rels[id].mode)>>
             \o save([j \in DOMAIN rels \ {id} |-> rels[j]])

\* LinkActivator._process_xml_file for a part of one paragraph
process_xml_file(para, sidecar) ==
    LET r == process_paragraph(para, LoadInto(Manager(<<>>, 1, <<>>), sidecar), <<>>)
    IN  [para |-> r.elems, sidecar |-> save(r.manager.relationships)]

\* characters of a run text: the scheme of a URL, a letter, a full stop, a
\* space
ActSyms == {"http://", "a", ".", " "}

RunTexts == StrUpTo(ActSyms, MaxRunLen)

\* the first child: a run with one text node, or with a second text node
\* after it
FirstRuns ==
    {Elem("r", Some({"b"}), <<t>>, None) : t \in RunTexts}
    \cup {Elem("r", None, <<t, <<"a">>>>, None) : t \in RunTexts}

\* what follows it: nothing, a run with a URL, a hyperlink that is already
\* there, a run without text
SecondChildren ==
    {<<>>,
     <<Elem("r", Some({"color"}), <<<<"http://", "a">>>>, None)>>,
     <<Elem("hyperlink", Some({"color", "u"}), <<<<"http://", "a">>>>,
            Some(Rid("rId", "1")))>>,
     <<Elem("r", None, <<>>, None)>>}

ActSidecars ==
    {<<>>,
     <<Relationship(Rid("rId", "1"), HYPERLINK_TYPE, <<"http://", "a">>, "External")>>,
     <<Relationship(Rid("rId", "3"), "styles", <<"styles.xml">>, ""),
       Relationship(Rid("rId", "1"), HYPERLINK_TYPE, <<"http://", "a">>, "External")>>}

\* the entry of a sidecar a hyperlink refers to
Resolves(h, sidecar) ==
    \E i \in 1..Len(sidecar) :
        sidecar[i] = Relationship(h.r_id[1], HYPERLINK_TYPE, h.texts[1], "External")

InitAct ==
    /\ DocIdle
    /\ KeyIdleInit
    /\ UrlIdle
    /\ P1Idle
    /\ ConfIdle
    /\ SearchIdle
    /\ HandleIdle
    /\ EntryIdle
    /\ PartIdle
    /\ RelsIdle
    /\ RefsIdle
    /\ apara0 \in {<<f>> \o s : f \in FirstRuns, s \in SecondChildren}
    /\ asidecar0 \in ActSidecars
    /\ \A i \in 1..Len(apara0) :
           apara0[i].tag = "hyperlink" => Resolves(apara0[i], asidecar0)
    /\ apara = apara0
    /\ asidecar = asidecar0
    /\ apass = 0
    /\ aprev = None

\* LinkActivator.process over the part as the last pass left it
Activate ==
    /\ apass < MaxPasses
    /\ LET out == process_xml_file(apara, asidecar)
       IN  /\ apara' = out.para
           /\ asidecar' = out.sidecar
    /\ aprev' = Some([para |-> apara, sidecar |-> asidecar])
    /\ apass' = apass + 1
    /\ UNCHANGED <<apara0, asidecar0>>
    /\ UNCHANGED <<docvars, keyvars, urlvars, p1vars, confvars, searchvars, handlevars, entryvars, partvars, relsvars, refvars>>

NextAct == Activate

SpecAct == InitAct /\ [][NextAct]_vars

-----------------------------------------------------------------------------
(* AuthorDateProcessor: the reference list spliced into the document body  *)

\* re.IGNORECASE on the words of a heading: upper- and lower-case spellings
\* of a word fold to one
FoldCase(text) ==
    [i \in 1..Len(text) |->
        IF text[i] \in {"Reference", "REFERENCE"} THEN "reference"
        ELSE IF text[i] = "S" THEN "s"
        ELSE IF text[i] = "Cited" THEN "cited"
        ELSE IF text[i] = "Bibliography" THEN "bibliography"
        ELSE text[i]]

\* \s* up to the end of the text
AllSpace(text) == \A i \in 1..Len(text) : text[i] = " "

\* re.match with a pattern that spells the word only, compared as typed
HeadingMatch_CaseSensitive(text) ==
    \E word \in {<<"Reference">>, <<"Reference", "s">>, <<"Bibliography">>,
                 <<"Reference", "s", " ", "Cited">>} :
        /\ Len(text) >= Len(word)
        /\ SubSeq(text, 1, Len(word)) = word
        /\ AllSpace(SubSeq(text, Len(word) + 1, Len(text)))

\* re.match(r'^References?\s*$|^Bibliography\s*$|^References Cited\s*$',
\*          text, re.IGNORECASE)
HeadingMatch(text) ==
    \E word \in {<<"reference">>, <<"reference", "s">>, <<"bibliography">>,
                 <<"reference", "s", " ", "cited">>} :
        /\ Len(text) >= Len(word)
        /\ SubSeq(FoldCase(text), 1, Len(word)) = word
        /\ AllSpace(SubSeq(text, Len(word) + 1, Len(text)))

\* re.match(r'^References?$|^Bibliography$|^References Cited$', text,
\*          re.IGNORECASE)
HeaderLineMatch(text) ==
    FoldCase(text) \in {<<"reference">>, <<"reference", "s">>, <<"bibliography">>,
                        <<"reference", "s", " ", "cited">>}

\* a child of w:body: a paragraph (w:p) with its style and runs, a table
\* (w:tbl) or the section properties (w:sectPr); a run has its italic mark
\* and the texts of its w:t children in order
BodyChild(tag, pstyle, runs) == [tag |-> tag, pstyle |-> pstyle, runs |-> runs]

RefRun(italic, texts) == [italic |-> italic, texts |-> texts]

\* ''.join(t.text or '' for t in para.findall('.//w:t'))
RECURSIVE para_text(_)
para_text(runs) ==
    IF runs = <<>> THEN <<>>
    ELSE Concat(Head(runs).texts) \o para_text(Tail(runs))

\* a reference list whose heading is "Works Cited" whatever the style
generate_reference_list_WorksCited(references, st) ==
    <<<<"Works", " ", "Cited">>, <<>>>>
    \o [i \in 1..(2 * Len(references)) |->
           IF i % 2 = 1 THEN references[(i + 1) \div 2] ELSE <<>>]

\* AuthorDateProcessor._generate_reference_list: the lines that are joined
\* with "\n" (and that split('\n') gives back: no line holds a newline)
generate_reference_list(references, st) ==
    <<(IF st \in {"APA (7th ed.)", "Harvard", "ASA (Sociology)"}
       THEN <<"Reference", "s">>
       ELSE IF st = "Chicago Author-Date" THEN <<"Reference", "s">>
       ELSE IF st = "AAA (Anthropology)" THEN <<"Reference", "s", " ", "Cited">>
       ELSE IF st = "Turabian Author-Date" THEN <<"Bibliography">>
       ELSE <<"Reference", "s">>),
      <<>>>>
    \o [i \in 1..(2 * Len(references)) |->
           IF i % 2 = 1 THEN references[(i + 1) \div 2] ELSE <<>>]

\* re.split(r'(<i>.*?</i>)', line) and the loop over the parts: the texts
\* of the normal parts, which all go into the first run, and the italic
\* runs, each appended to the paragraph when its part is met
RECURSIVE line_parts(_)
line_parts(line) ==
    LET open == FirstIndex(line, "<i>", 1)
        close == IF open = 0 THEN 0 ELSE FirstIndex(line, "</i>", open + 1)
    IN  IF line = <<>> THEN [normal |-> <<>>, italic |-> <<>>]
        ELSE IF close = 0 THEN [normal |-> <<line>>, italic |-> <<>>]
        ELSE LET rest == line_parts(SubSeq(line, close + 1, Len(line)))
             IN  [normal |-> (IF open > 1 THEN <<SubSeq(line, 1, open - 1)>> ELSE <<>>)
                             \o rest.normal,
                  italic |-> <<RefRun(TRUE, <<SubSeq(line, open + 1, close - 1)>>)>>
                             \o rest.italic]

\* the body of the loop of _create_reference_paragraphs for one line
create_reference_paragraph(line) ==
    IF Strip(line) = <<>> THEN BodyChild("p", None, <<>>)
    ELSE LET parts == line_parts(line)
         IN  BodyChild("p",
                 IF HeaderLineMatch(Strip(line)) THEN Some("Heading1") ELSE None,
                 <<RefRun(FALSE, parts.normal)>> \o parts.italic)

\* AuthorDateProcessor._create_reference_paragraphs
create_reference_paragraphs(lines) ==
    [i \in 1..Len(lines) |-> create_reference_paragraph(lines[i])]

IsPara(child) == child.tag = "p"

\* position in the body of the first paragraph whose text is a heading, 0
\* when there is none
references_start(body) ==
    LET hits == {i \in 1..Len(body) :
                    IsPara(body[i]) /\ HeadingMatch(Strip(para_text(body[i].runs)))}
    IN  IF hits = {} THEN 0 ELSE CHOOSE i \in hits : \A j \in hits : i <= j

\* the body after "for para in paragraphs[references_start_idx:]:
\* body.remove(para)": the paragraphs from the heading on are gone
RemoveFrom(body, at) ==
    LET keep(i) == ~(IsPara(body[i]) /\ i >= at)
        F[i \in 0..Len(body)] ==
            IF i = 0 THEN <<>>
            ELSE IF keep(i) THEN Append(F[i - 1], body[i]) ELSE F[i - 1]
    IN  F[Len(body)]

\* AuthorDateProcessor._update_document_references on the children of
\* w:body: the new children, the new paragraphs and where the heading was
update_document_references(body, lines) ==
    LET at == references_start(body)
        new_paragraphs == create_reference_paragraphs(lines)
        left == IF at = 0 THEN body ELSE RemoveFrom(body, at)
        has_sect == \E i \in 1..Len(left) : left[i].tag = "sectPr"
        insert_idx == IF has_sect THEN Len(left) - 1 ELSE Len(left)
    IN  [body |-> SubSeq(left, 1, insert_idx) \o new_paragraphs
                  \o SubSeq(left, insert_idx + 1, Len(left)),
         new |-> new_paragraphs,
         found |-> IF at = 0 THEN None
                   ELSE Some(Cardinality({i \in 1..at : IsPara(body[i])}))]

BodyPara(text) == BodyChild("p", None, <<RefRun(FALSE, <<text>>)>>)

\* what a body holds before its section properties: text, headings in
\* several spellings, a paragraph that only starts like a heading, a table
BodyChildren ==
    {BodyPara(<<"x">>),
     BodyPara(<<" ", "REFERENCE">>),
     BodyPara(<<"Bibliography", " ">>),
     BodyPara(<<"REFERENCE", "S", " ", "Cited">>),
     BodyPara(<<"Reference", "s", " ", "x">>),
     BodyChild("tbl", None, <<>>)}

SectPr == BodyChild("sectPr", None, <<>>)

\* formatted reference entries: italics at the end, italics followed by
\* plain text
RefLines == {<<"x", "<i>", "y", "</i>">>, <<"<i>", "x", "</i>", "y">>}

RefStyles ==
    {"APA (7th ed.)", "AAA (Anthropology)", "Turabian Author-Date", "MLA"}

InitRefs ==
    /\ DocIdle
    /\ KeyIdleInit
    /\ UrlIdle
    /\ P1Idle
    /\ ConfIdle
    /\ SearchIdle
    /\ HandleIdle
    /\ EntryIdle
    /\ PartIdle
    /\ RelsIdle
    /\ ActIdle
    /\ \E b \in StrUpTo(BodyChildren, MaxBody), sect \in {<<>>, <<SectPr>>} :
           ref_body0 = b \o sect
    /\ ref_body = ref_body0
    /\ ref_style \in RefStyles
    /\ ref_list \in StrUpTo(RefLines, MaxRefs)
    /\ ref_found = None
    /\ ref_new = <<>>
    /\ ref_splices = 0
    /\ ref_prev = None

\* process_document: the list is generated and spliced into the document
\* as the last splice left it
Splice ==
    /\ ref_splices < MaxPasses
    /\ LET out == update_document_references(ref_body,
                      generate_reference_list(ref_list, ref_style))
       IN  /\ ref_body' = out.body
           /\ ref_new' = out.new
           /\ ref_found' = out.found
    /\ ref_prev' = Some(ref_body)
    /\ ref_splices' = ref_splices + 1
    /\ UNCHANGED <<ref_body0, ref_style, ref_list>>
    /\ UNCHANGED <<docvars, keyvars, urlvars, p1vars, confvars, searchvars, handlevars, entryvars, partvars, relsvars, actvars>>

NextRefs == Splice

SpecRefs == InitRefs /\ [][NextRefs]_vars

-----------------------------------------------------------------------------
(* Properties of Phase 2                                                   *)

\* a step of the Phase 2 loop: the note handled is number idx'
ProcessStep == phase = "phase2" /\ idx' = idx + 1

KeyOf(optMeta) == IF optMeta = None THEN None ELSE generate_source_key(optMeta[1])

\* The case the priority list S0..S5 assigns to a record, given the history
\* before the record is handled.
ExpectedCase(d, h) ==
    LET prevUrl == IF h.previous = None THEN <<>>
                   ELSE h.previous[1].metadata.url
        k == KeyOf(d.metadata)
    IN  IF is_ibid(d.original_text) THEN "S0"
        ELSE IF d.metadata = None \/ d.formatted = <<>> THEN "S1"
        ELSE IF d.current_url # <<>> /\ prevUrl # <<>>
                /\ normalize_url(d.current_url) = normalize_url(prevUrl) THEN "S2"
        ELSE IF h.previous # None /\ k # None /\ k = h.previous[1].source_key
             THEN "S3"
        ELSE IF k # None /\ k \in DOMAIN h.all_sources THEN "S4"
        ELSE "S5"

FormOfCase(c) ==
    CASE c \in {"S0", "S2", "S3"} -> "ibid"
      [] c = "S4" -> "short"
      [] OTHER -> "full"

\* C1: each note handled by Phase 2 enters exactly one case, the first of
\* S0 (explicit ibid text), S1 (resolution failed), S2 (URL equals the
\* previous entry's URL after normalisation), S3 (same source as previous),
\* S4 (cited before), S5 (otherwise) whose condition holds, and a note that
\* is emitted is emitted in that case's form.
C1_CasePriority ==
    [][ProcessStep =>
        /\ Len(cases') = idx'
        /\ Len(results') = idx'
        /\ cases'[idx'] = ExpectedCase(fetched_data[idx'], history)
        /\ (results'[idx'].success =>
               results'[idx'].citation_form = FormOfCase(cases'[idx']))
        /\ (cases'[idx'] \in {"S2", "S3", "S5"} => results'[idx'].success)
        /\ (cases'[idx'] = "S1" => ~results'[idx'].success)]_vars

C1_Witness ==
    /\ phase = "done"
    /\ cases = <<"S5", "S5", "S4">>
    /\ results[3].success

\* C2: S0, S1 and S2 leave the history unchanged; an emitted S3, S4 or S5
\* adds exactly one entry, made of the note's own metadata and the text
\* emitted for it.
C2_HistoryPush ==
    [][ProcessStep =>
        /\ (cases'[idx'] \in {"S0", "S1", "S2"} => history' = history)
        /\ (cases'[idx'] \in {"S3", "S4", "S5"} /\ results'[idx'].success =>
               /\ history'.note_counter = history.note_counter + 1
               /\ history'.previous # None
               /\ history'.previous[1].metadata = fetched_data[idx'].metadata[1]
               /\ history'.previous[1].formatted = results'[idx'].formatted
               /\ history'.previous[1].note_number = history'.note_counter)]_vars

C2_Witness ==
    /\ cases = <<"S5", "S2", "S3">>
    /\ history.note_counter = 2

\* the notes emitted as full or short, and those emitted as ibid
Emitted(i) == results[i].success
EmittedIbid(i) == Emitted(i) /\ results[i].citation_form = "ibid"
EmittedCitation(i) == Emitted(i) /\ results[i].citation_form \in {"full", "short"}

\* the source an ibid note stands for: the source its own text resolved to,
\* and for an explicit ibid token the source the log records for it
IbidSource(i) ==
    IF fetched_data[i].metadata # None THEN fetched_data[i].metadata
    ELSE results[i].metadata

\* the same record, or two records the source keys identify
SameSource(optM1, optM2) ==
    /\ optM1 # None
    /\ optM2 # None
    /\ (optM1 = optM2 \/ sources_match(optM1[1], optM2[1]))

\* C3: for every note emitted as ibid, the nearest earlier note emitted as
\* full or short (failed notes and other ibids skipped) refers to the same
\* source as the ibid note.
C3_IbidSameSource ==
    \A i \in 1..Len(results) :
        EmittedIbid(i) =>
            \E j \in 1..(i - 1) :
                /\ EmittedCitation(j)
                /\ \A k \in (j + 1)..(i - 1) : ~EmittedCitation(k)
                /\ SameSource(IbidSource(i), results[j].metadata)

\* C4 as stated: the source key of every note emitted as full or short is a
\* key of history.all_sources.
C4_EmittedKeyInLedger ==
    \A i \in 1..Len(results) :
        EmittedCitation(i) =>
            KeyOf(results[i].metadata) \in DOMAIN history.all_sources

\* C4: the source key of every note emitted as full or short is, when it is
\* not null, a key of history.all_sources.
C4_EmittedNonNullKeyInLedger ==
    \A i \in 1..Len(results) :
        (EmittedCitation(i) /\ KeyOf(results[i].metadata) # None) =>
            KeyOf(results[i].metadata) \in DOMAIN history.all_sources

C4_Witness ==
    /\ idx = 3
    /\ EmittedCitation(1) /\ results[1].citation_form = "full"
    /\ EmittedCitation(3) /\ results[3].citation_form = "short"
    /\ KeyOf(results[3].metadata) \in DOMAIN history.all_sources

C6_IbidWithoutPrecedent ==
    [][(ProcessStep /\ is_ibid(notes[idx'].text) /\ history.previous = None) =>
        /\ doc' = doc
        /\ history' = history
        /\ ~results'[idx'].success
        /\ results'[idx'].original = notes[idx'].text
        /\ results'[idx'].formatted = notes[idx'].text
        /\ results'[idx'].error # ""
        /\ Len(results') = Len(results) + 1
        /\ phase' = "phase2"]_vars

C6_Witness ==
    /\ Len(results) = 3
    /\ results[1].citation_form = "ibid" /\ ~results[1].success
    /\ doc[1] = notes[1].text
    /\ Emitted(2) /\ results[2].citation_form = "full"
    /\ EmittedIbid(3) /\ fetched_data[3].is_explicit_ibid

\* every entry the history holds
HistoryEntries(h) ==
    {h.all_sources[k] : k \in DOMAIN h.all_sources}
        \cup (IF h.previous = None THEN {} ELSE {h.previous[1]})

\* C7: whenever the history changes, the new entry's ordinal exceeds the
\* ordinal of every entry held before, no key leaves all_sources, and the
\* entry stored under a key stays the one first stored under it.
C7_HistoryGrows ==
    [][history' # history =>
        /\ history'.previous # None
        /\ \A e \in HistoryEntries(history) :
              history'.previous[1].note_number > e.note_number
        /\ \A k \in DOMAIN history.all_sources :
              /\ k \in DOMAIN history'.all_sources
              /\ history'.all_sources[k] = history.all_sources[k]
        /\ \A k \in DOMAIN history'.all_sources :
              k \notin DOMAIN history.all_sources =>
                 /\ history'.all_sources[k] = history'.previous[1]
                 /\ k = history'.previous[1].source_key]_vars

C7_Witness ==
    /\ history.note_counter = 3
    /\ history.previous # None
    /\ history.previous[1].source_key \in DOMAIN history.all_sources
    /\ history.all_sources[history.previous[1].source_key].note_number = 1
    /\ Cardinality(DOMAIN history.all_sources) = 2

-----------------------------------------------------------------------------
(* Properties of the source key                                            *)

\* C8 as stated: whenever the keys of two records are equal, sources_match
\* holds for the two records.
C8_EqualKeysMatch ==
    (kstage = "out" /\ key1 = key2) => kmatch

\* C8: whenever two records have equal keys and the key is not null,
\* sources_match holds for the two records.
C8_EqualNonNullKeysMatch ==
    (kstage = "out" /\ key1 = key2 /\ key1 # None) => kmatch

C8_Witness ==
    kstage = "out" /\ key1 = key2 /\ key1 # None /\ km1 # km2 /\ kmatch

\* C9 as stated: the key is null exactly when the record has no DOI, no URL,
\* no case name and no title.
C9_NullIffNoFields ==
    kstage = "out" =>
        (key1 = None <=>
            (km1.doi = <<>> /\ km1.url = <<>> /\ km1.case_name = <<>>
             /\ km1.title = <<>>))

\* C9: the key is null exactly when the record has no DOI with a non-empty
\* normalized form, no URL, no case name and no title.
C9_NullIffNoUsableFields ==
    kstage = "out" =>
        (key1 = None <=>
            (normalize_doi(km1.doi) = <<>> /\ km1.url = <<>>
             /\ km1.case_name = <<>> /\ km1.title = <<>>))

C9_Witness ==
    /\ kstage = "out"
    /\ key1 = None
    /\ km1.doi # <<>>
    /\ km1.citation # <<>>
    /\ km1.authors # <<>>

\* The kind of key the priority list gives a record, a DOI counting when
\* hasDoi says so.
KindByPriority(m, hasDoi) ==
    IF hasDoi THEN "doi:"
    ELSE IF m.url # <<>> THEN "url:"
    ELSE IF m.case_name # <<>> /\ m.citation # <<>> THEN "legal:"
    ELSE IF m.title # <<>> THEN "title:"
    ELSE IF m.case_name # <<>> THEN "case:"
    ELSE "none"

KeyKind(k) == IF k = None THEN "none" ELSE Head(k)

\* The rest of a title key: the author part is there iff the record has a
\* first author.
TitleKeyHasAuthor(k) == \E i \in 1..Len(k) : k[i] = "|author:"

\* C10 as stated: the key is built from the highest-priority field the
\* record has (DOI, URL, case name with citation, title with first author,
\* case name); records with the same normalized DOI match whatever else they
\* hold; two records match only if both keys are non-null and equal.
C10_PriorityByPresence ==
    kstage = "out" =>
        /\ KeyKind(key1) = KindByPriority(km1, km1.doi # <<>>)
        /\ (KeyKind(key1) = "title:" =>
                (TitleKeyHasAuthor(key1) <=> km1.authors # <<>>))
        /\ (km1.doi # <<>> /\ km2.doi # <<>>
            /\ normalize_doi(km1.doi) = normalize_doi(km2.doi)) => kmatch
        /\ kmatch => (key1 # None /\ key2 # None /\ key1 = key2)

\* C10: the same, a DOI counting as present when its normalized form is
\* non-empty.
C10_PriorityByUsableField ==
    kstage = "out" =>
        /\ KeyKind(key1) = KindByPriority(km1, normalize_doi(km1.doi) # <<>>)
        /\ (KeyKind(key1) = "doi:" => key1 = <<"doi:">> \o normalize_doi(km1.doi))
        /\ (KeyKind(key1) = "url:" => key1 = <<"url:">> \o normalize_url(km1.url))
        /\ (KeyKind(key1) = "title:" =>
                (TitleKeyHasAuthor(key1) <=> km1.authors # <<>>))
        /\ (normalize_doi(km1.doi) # <<>>
            /\ normalize_doi(km1.doi) = normalize_doi(km2.doi)) => kmatch
        /\ kmatch => (key1 # None /\ key2 # None /\ key1 = key2)

C10_Witness ==
    /\ kstage = "out"
    /\ kmatch
    /\ KeyKind(key1) = "doi:"
    /\ km1.doi # km2.doi
    /\ km1.url # km2.url
    /\ km1.title # km2.title

-----------------------------------------------------------------------------
(* Properties of the URL functions                                         *)

IsLowerCase(s) == Lower(s) = s
IsTrimmed(s) == Strip(s) = s
HasTrailingSlash(s) == s # <<>> /\ s[Len(s)] = "/"

\* C11: normalize_url returns a lowercase, trimmed string with no trailing
\* slash and no query string, and urls_match(u1, u2) is true iff both URLs
\* are non-empty and their normalized forms are equal.
C11_NormalizedForm ==
    ustage = "out" =>
        /\ IsLowerCase(nurl1)
        /\ IsTrimmed(nurl1)
        /\ ~HasTrailingSlash(nurl1)
        /\ ~Contains(nurl1, "?")
        /\ umatch <=> (u1 # <<>> /\ u2 # <<>> /\ nurl1 = nurl2)

-----------------------------------------------------------------------------
(* Properties of Phase 1                                                   *)

\* C12: whatever order the Phase 1 tasks finish in, the i-th record is the
\* one resolved for the i-th note, Phase 2 runs only once every task has
\* finished and handles the records in note order, and the history is
\* untouched while Phase 1 runs.
C12_Phase1OrderIndependent ==
    /\ phase = "phase1" =>
          history = NewHistory /\ results = <<>> /\ idx = 0
    /\ phase \in {"phase2", "done"} =>
          /\ \A i \in 1..Len(notes) : tasks[i] = "done"
          /\ Len(fetched_data) = Len(notes)
          /\ \A i \in 1..Len(notes) :
                fetched_data[i] = fetch_metadata_for_note(notes[i], answers[i])
          /\ Len(results) = idx
          /\ \A i \in 1..Len(results) : results[i].original = notes[i].text

C12_Witness ==
    /\ phase = "done"
    /\ completed = <<2, 1>>
    /\ notes[1].text # notes[2].text
    /\ Len(results) = 2

-----------------------------------------------------------------------------
(* Properties of the scoring                                               *)

WithinOneYear(y1, y2) ==
    IntParses(y1) /\ IntParses(y2) /\ Abs(IntOf(y1) - IntOf(y2)) <= 1

\* the sum of the weights that apply to record m under query q, in hundredths
StatedSum(m, q) ==
    (IF m.year = q.year THEN 30 ELSE IF WithinOneYear(m.year, q.year) THEN 20 ELSE 0)
    + (IF AnyAuthorContains(m.authors, q.author) THEN 30 ELSE 0)
    + (IF q.second_author # <<>> /\ AnyAuthorContains(m.authors, q.second_author)
       THEN 15 ELSE 0)
    + (IF m.doi # <<>> THEN 15 ELSE 0)
    + (IF m.title # <<>> THEN 5 ELSE 0)
    + (IF m.journal # <<>> \/ m.publisher # <<>> THEN 5 ELSE 0)
    + (IF m.volume # <<>> \/ m.pages # <<>> THEN 5 ELSE 0)

\* the per-provider adjustment: +0.10 for a Crossref result with a DOI,
\* -0.05 for a Google Scholar result without one
Adjustment(p, m) ==
    IF p = "crossref" /\ m.doi # <<>> THEN 10
    ELSE IF p = "google_scholar" /\ m.doi = <<>> THEN 0 - 5
    ELSE 0

InUnitRange(c) == 0 <= c /\ c <= 100

\* C17 as stated: the confidence of a provider result equals the stated sum
\* and, also after the per-provider adjustment, lies in [0, 1].
C17_ConfidenceIsSum ==
    cstage = "out" =>
        /\ cconf = StatedSum(cmeta, cq)
        /\ InUnitRange(cconf)
        /\ \A i \in 1..Len(cfinal) : InUnitRange(cfinal[i].confidence)

\* C17, amended: the confidence of a provider result equals the stated sum
\* capped at 1.0, the adjusted confidence is that value plus the provider's
\* adjustment, again kept within [0, 1], and both lie in [0, 1].
C17_ConfidenceIsCappedSum ==
    cstage = "out" =>
        /\ cconf = Min(100, StatedSum(cmeta, cq))
        /\ InUnitRange(cconf)
        /\ \A i \in 1..Len(cfinal) :
              /\ InUnitRange(cfinal[i].confidence)
              /\ cfinal[i].confidence =
                    Max(0, Min(100, cconf + Adjustment(cprov, cmeta)))

C17_Witness ==
    /\ cstage = "out"
    /\ StatedSum(cmeta, cq) = 105
    /\ cprov = "crossref"
    /\ Len(cfinal) = 1
    /\ cfinal[1].confidence = 100

-----------------------------------------------------------------------------
(* Properties of AuthorDateEngine.search                                   *)

IsOracleResult(r) == r.match_reason = "Claude AI contextual match"
IsProviderResult(r) == ~IsOracleResult(r)

\* C13: a provider result is returned only if its confidence is at least
\* 0.6; when the best provider score is below 0.6 the outcome is an accepted
\* oracle result or null.
C13_ProviderResultNeedsThreshold ==
    spc = "returned" /\ best # None /\ IsProviderResult(best[1])
        => best[1].confidence >= 60

\* the highest confidence in a list of results, -1 for the empty list
MaxConfidence(rs) ==
    IF rs = <<>> THEN 0 - 1
    ELSE CHOOSE c \in {rs[i].confidence : i \in 1..Len(rs)} :
            \A i \in 1..Len(rs) : rs[i].confidence <= c

ProviderResults(rs) == SelectSeq(rs, IsProviderResult)

\* C13, amended: a provider result is returned without the oracle being
\* consulted only if its confidence is at least 0.6 (0.6 included); when the
\* best provider score is below 0.6 the oracle is consulted and the outcome
\* is the oracle's result if it is accepted, else the best provider result,
\* and null only when there is no result at all.
C13_ThresholdThenBestOverall ==
    spc = "returned" /\ ~is_no_date(sq.year) =>
        /\ guess_out = None <=> MaxConfidence(ProviderResults(sresults)) >= 60
        /\ guess_out = None => best # None /\ IsProviderResult(best[1])
        /\ best = None <=> sresults = <<>>
        /\ best # None =>
              /\ best[1].confidence = MaxConfidence(sresults)
              /\ ret = Some(best[1].metadata)
        /\ best = None => ret = None
        /\ (\E i \in 1..Len(sresults) : IsOracleResult(sresults[i]))
              => best # None /\ IsOracleResult(best[1])

C13_Witness ==
    /\ spc = "returned"
    /\ guess_out # None
    /\ best # None
    /\ IsProviderResult(best[1])
    /\ best[1].confidence < 60

\* C14: when the timeout elapses before every provider task has finished,
\* search goes on with the results collected so far and returns normally.
C14_TimeoutReturnsNormally ==
    exc # "TimeoutError"

MatchReason(p) ==
    CASE p = "semantic_scholar" -> "Semantic Scholar author+year match"
      [] p = "crossref" -> "Crossref author+year match"
      [] p = "openalex" -> "OpenAlex author+year match"
      [] p = "google_scholar" -> "Google Scholar author+year match"

CollectedSet == {collected[i] : i \in 1..Len(collected)}

ResultsOf(p) ==
    {i \in 1..Len(sresults) : sresults[i].match_reason = MatchReason(p)}

\* C15: an exception raised by a provider's search call is absorbed and
\* counts as an empty result: search never raises because of a provider
\* outcome (result, nothing, exception), and the results of the other
\* providers are still scored and ranked.
C15_ProviderErrorsAbsorbed ==
    /\ exc # "ProviderError"
    /\ spc = "raised" => exc = "TimeoutError"
    /\ \A p \in CollectedSet :
          /\ engine_out[p].raises => ResultsOf(p) = {}
          /\ \A k \in 1..Len(search_provider(p, engine_out[p], sq)) :
                \E i \in ResultsOf(p) :
                    sresults[i].confidence =
                        search_provider(p, engine_out[p], sq)[k].confidence
    /\ spc \in {"oracle", "returned"} /\ ~is_no_date(sq.year) =>
          /\ CollectedSet = handles
          /\ \A i \in 1..(Len(sresults) - 1) :
                sresults[i].confidence >= sresults[i + 1].confidence

C15_Witness ==
    /\ spc = "returned"
    /\ \E p \in CollectedSet : engine_out[p].raises
    /\ best # None
    /\ IsProviderResult(best[1])
    /\ guess_out = None

\* position of a result's provider in the declared order, the oracle last
DeclaredRank(r) ==
    IF IsOracleResult(r) THEN Len(Providers) + 1
    ELSE CHOOSE k \in 1..Len(Providers) : r.match_reason = MatchReason(Providers[k])

\* C16: for a given set of provider results the metadata returned does not
\* depend on the order the tasks complete in: among the results of highest
\* confidence the one of the provider declared earliest is returned.
C16_DeclaredOrderBreaksTies ==
    spc = "returned" /\ best # None =>
        \A i \in 1..Len(sresults) :
            sresults[i].confidence = best[1].confidence
                => DeclaredRank(best[1]) <= DeclaredRank(sresults[i])

\* m1 and m2 are the same record but for the DOI, which only m1 carries
\* (the engine's own tag and the raw-source echo set on return aside)
SameExceptDoi(m1, m2) ==
    /\ m1.doi # <<>>
    /\ m2.doi = <<>>
    /\ m1.title = m2.title
    /\ m1.authors = m2.authors
    /\ m1.year = m2.year
    /\ m1.journal = m2.journal
    /\ m1.publisher = m2.publisher
    /\ m1.volume = m2.volume
    /\ m1.pages = m2.pages

\* pairs of provider results in the list, the first with the DOI
DoiPairs ==
    {pr \in (1..Len(sresults)) \X (1..Len(sresults)) :
        /\ IsProviderResult(sresults[pr[1]])
        /\ IsProviderResult(sresults[pr[2]])
        /\ SameExceptDoi(sresults[pr[1]].metadata, sresults[pr[2]].metadata)}

\* C18 as stated: of two provider results that differ only in the DOI the
\* DOI-bearing one is selected, its confidence is 0.15 higher than the
\* other's and the returned tag is its provider's, for every pair of
\* providers.
C18_DoiResultFifteenHigher ==
    \A pr \in DoiPairs :
        /\ sresults[pr[1]].confidence = sresults[pr[2]].confidence + 15
        /\ spc \in {"oracle", "returned"} => pr[1] < pr[2]
        /\ spc = "returned" /\ best # None /\ best[1] = sresults[pr[1]]
              => ret[1].source_engine = sresults[pr[1]].metadata.source_engine

\* C18, amended: of two provider results that differ only in the DOI the
\* DOI-bearing one ranks above the other, which is therefore never the one
\* returned; its confidence is higher by 0.15, plus 0.10 if its provider is
\* Crossref, plus 0.05 if the other's provider is Google Scholar (capped at
\* 1.0); when it is returned, the returned record is its provider's, DOI
\* and source-engine tag included.
C18_DoiResultRanksHigher ==
    \A pr \in DoiPairs :
        LET bearing == sresults[pr[1]]
            plain == sresults[pr[2]]
        IN  /\ bearing.confidence =
                  Min(100, plain.confidence + 15
                           + (IF bearing.match_reason = MatchReason("crossref")
                              THEN 10 ELSE 0)
                           + (IF plain.match_reason = MatchReason("google_scholar")
                              THEN 5 ELSE 0))
            /\ bearing.confidence > plain.confidence
            /\ spc \in {"oracle", "returned"} => pr[1] < pr[2]
            /\ spc = "returned" /\ best # None =>
                  /\ best[1].match_reason # plain.match_reason
                  /\ best[1] = bearing =>
                        /\ ret[1].doi # <<>>
                        /\ ret[1].source_engine = bearing.metadata.source_engine

C18_Witness ==
    /\ spc = "returned"
    /\ best # None
    /\ best[1].match_reason = MatchReason("crossref")
    /\ \E pr \in DoiPairs :
          /\ pr[1] = 1
          /\ sresults[pr[2]].match_reason = MatchReason("google_scholar")
          /\ sresults[1].confidence = sresults[pr[2]].confidence + 30

OracleResults == {i \in 1..Len(sresults) : IsOracleResult(sresults[i])}

\* C19: the oracle's guess is accepted only if its reported confidence is at
\* least 0.5 and the supplied author surname is, case-insensitively, a
\* substring of some returned author; an accepted guess is ranked with
\* confidence min(0.95, reported + 0.10); a rejected guess never becomes the
\* returned metadata.
C19_OracleAcceptance ==
    /\ guess_out = None => OracleResults = {}
    /\ guess_out # None =>
          LET outcome == guess_out[1]
          IN  /\ \A i \in OracleResults :
                    /\ ~outcome.raises
                    /\ outcome.guess[1].has_confidence
                    /\ outcome.guess[1].confidence >= 50
                    /\ \E k \in 1..Len(outcome.guess[1].authors) :
                          IsSubstring(Lower(sq.author),
                                      Lower(outcome.guess[1].authors[k]))
                    /\ sresults[i].confidence =
                          Min(95, outcome.guess[1].confidence + 10)
              /\ OracleResults = {} =>
                    /\ best # None => IsProviderResult(best[1])
                    /\ ret # None => ret[1].source_engine # <<"Claude AI">>

C19_Witness ==
    /\ spc = "returned"
    /\ guess_out # None
    /\ ~guess_out[1].raises
    /\ guess_out[1].guess[1].confidence = 50
    /\ best # None
    /\ IsOracleResult(best[1])
    /\ best[1].confidence = 60
    /\ ret = Some(best[1].metadata)
    /\ Len(sresults) > 1

\* C20: search with year "n.d." returns null at once: no provider task is
\* submitted, no provider handle is created and the oracle is not invoked.
C20_NoDateNoWork ==
    sq.year = <<"n.d.">> =>
        /\ spc \in {"call", "returned"}
        /\ handles = {}
        /\ futures = <<>>
        /\ collected = <<>>
        /\ guess_out = None
        /\ sresults = <<>>
        /\ ret = None
        /\ exc = ""

C20_Witness ==
    /\ spc = "returned"
    /\ sq.year = <<"n.d.">>
    /\ avail = ProviderSet
    /\ ret = None

-----------------------------------------------------------------------------
(* Properties of the provider handles                                      *)

\* C21: over any sequence of search calls, concurrent ones on the shared
\* engine included, each provider handle of an engine is constructed at most
\* once and every call works with that one instance.
C21_HandleConstructedOnce ==
    \A e \in DOMAIN n_inst : \A p \in ProviderSet :
        /\ n_inst[e][p] <= 1
        /\ Cardinality(used[e][p]) <= 1


-----------------------------------------------------------------------------
(* Properties of the results log                                           *)

\* the pass of the Phase 2 loop just taken ended in a failed entry
NoteFailed == idx' = idx + 1 /\ ~results'[idx'].success

\* C22: the results log has one entry per enumerated note, in note order;
\* a note whose handling fails (an exception in Phase 2 included) gets a
\* failed entry carrying its original text, its stored content and the
\* entries logged before it stay as they were, the loop moves on to the next
\* note, and the citation history from which the following notes are
\* classified is the one from before the failed note.
C22_OneEntryPerNote ==
    [][/\ Len(results') = idx'
       /\ idx' <= Len(notes)
       /\ \A i \in 1..Len(results') : results'[i].original = notes[i].text
       /\ phase' = "done" => Len(results') = Len(notes)
       /\ NoteFailed =>
             /\ results'[idx'].formatted = notes[idx'].text
             /\ SubSeq(results', 1, idx) = results
             /\ doc' = doc
             /\ history' = history]_vars

\* a failed note in the middle of the document, the note after it resolved
C22_Witness ==
    \E i \in 1..Len(results) : \E j \in 1..Len(results) :
        /\ 1 < i
        /\ i < j
        /\ results[i - 1].success
        /\ ~results[i].success
        /\ results[j].success



-----------------------------------------------------------------------------
(* Properties of the document-level operation                              *)

\* C23: when the input bytes are no valid archive, or packaging the output
\* fails, process_document does not raise: it ends by returning the original
\* input bytes with an empty results list.
C23_FatalErrorsReturned ==
    (~file_bytes.valid \/ ~pack_ok) /\ phase # "load" =>
        /\ dexc = ""
        /\ dret # None
        /\ dret[1].bytes = file_bytes
        /\ dret[1].results = <<>>


-----------------------------------------------------------------------------
(* Properties of the notes part                                            *)

\* the step just taken was a call of write_endnote / write_footnote
WriteCalled ==
    /\ last' # None
    /\ last'[1].caller \in {"phase2", "direct"}
    /\ \/ ppos' = ppos + 1
       \/ pstage = "start" /\ pstage' = "direct"

TargetOf(p, note_id) ==
    CHOOSE i \in NotesWithId(p, note_id) :
        \A j \in NotesWithId(p, note_id) : i <= j

\* positions of the reference runs among the children of a paragraph
RefRuns(para) == {k \in 1..Len(para) : para[k].ref}

\* C25: after a successful write_endnote / write_footnote the note's
\* paragraph (its first one, or the one created for a note that had none)
\* still has every pPr and reference run it had, holds exactly one reference
\* run, which carries the canonical style when the paragraph had none
\* before, has that run ahead of all content runs, and apart from those
\* preserved children holds only the runs made from the new content.
C25_ParagraphAfterWrite ==
    [][WriteCalled /\ last'[1].ok =>
          LET t == TargetOf(part, last'[1].id)
              old == IF part[t].paras = <<>> THEN <<>> ELSE part[t].paras[1]
              new == part'[t].paras[1]
              runs == ContentRuns(Unescape(last'[1].content))
          IN  /\ \A k \in 1..Len(old) :
                    IsPreserved(old[k]) => \E m \in 1..Len(new) : new[m] = old[k]
              /\ Cardinality(RefRuns(new)) = 1
              /\ RefRuns(old) = {} =>
                    \A m \in RefRuns(new) : new[m] = XmlRefRun(RefStyle(pkind))
              /\ \A m \in RefRuns(new) : \A k \in 1..Len(new) :
                    ~IsPreserved(new[k]) => m < k
              /\ SelectSeq(new, LAMBDA c : ~IsPreserved(c)) = runs]_vars


\* C26: round trip.  When the notes are read, each listed note is written
\* back with exactly the text read for it (every write succeeding), and the
\* notes are read again, the second listing equals the first: same IDs, same
\* text per ID, notes of several paragraphs included.
C26_RoundTrip ==
    pstage = "done" /\ faithful => relisting = listing

IsContentId(id) == IdIsInt(id) /\ IdValue(id) >= 1

\* C28: get_endnotes / get_footnotes list no note whose ID is 0, -1 or
\* otherwise below 1 (or no integer); Phase 2 therefore logs no result for
\* such a note and leaves every such note of the part as it was.
C28_SystemNotesNotEnumerated ==
    /\ \A i \in 1..Len(listing) : IsContentId(listing[i].id)
    /\ \A i \in 1..Len(relisting) : IsContentId(relisting[i].id)
    /\ \A i \in 1..Len(plogged) : IsContentId(plogged[i])
    /\ pstage = "loop" \/ (pstage = "done" /\ (last = None \/ last[1].caller \in {"phase2", "none"})) =>
          \A i \in 1..Len(part) : ~IsContentId(part[i].id) => part[i] = part0[i]

\* Phase 2 went through a part that holds a system note with text next to a
\* content note, and rewrote the content note
C28_Witness ==
    /\ pstage = "done"
    /\ plogged # <<>>
    /\ last # None
    /\ last[1].caller = "phase2"
    /\ last[1].ok
    /\ \E i \in 1..Len(part) :
          /\ part[i].id \in {"0", "-1"}
          /\ NoteText(part[i]) # <<>>


-----------------------------------------------------------------------------
(* Properties of the relationship sidecar                                  *)

\* the relationship ID is rIdN with N a number
IsNumbered(id) == id.pre = "rId" /\ TokenParses(id.num)

\* the step just taken called add_hyperlink with the URL of the new link
AddCalled ==
    /\ Len(links') = Len(links) + 1
    /\ links'[Len(links')].url \notin DOMAIN processed_urls

\* C29: add_hyperlink for a URL that is no hyperlink target in the sidecar
\* yet returns rIdN with N above the number of every numbered ID there, an
\* ID no entry has, and adds exactly that one entry (targeting the URL) while
\* the others stay; for a URL that is a target already it returns the ID of
\* an entry targeting it and changes nothing.
C29_FreshIdAboveAll ==
    [][AddCalled =>
          LET url == links'[Len(links')].url
              r_id == links'[Len(links')].r_id
          IN  IF url \in DOMAIN url_to_rid
              THEN /\ r_id \in DOMAIN relationships
                   /\ relationships[r_id].target = url
                   /\ relationships' = relationships
              ELSE /\ IsNumbered(r_id)
                   /\ r_id \notin DOMAIN relationships
                   /\ \A e \in DOMAIN relationships :
                         IsNumbered(e) => TokenValue(r_id.num) > TokenValue(e.num)
                   /\ DOMAIN relationships' = DOMAIN relationships \cup {r_id}
                   /\ relationships'[r_id].target = url
                   /\ \A e \in DOMAIN relationships : relationships'[e] = relationships[e]]_vars

\* a sidecar with a numbered entry and one without a number; a URL new to it
\* got an ID, and a URL it already held got the ID it had
C29_Witness ==
    /\ \E i \in 1..Len(rels_file) : IsNumbered(rels_file[i].id)
    /\ \E i \in 1..Len(rels_file) : ~IsNumbered(rels_file[i].id)
    /\ \E i \in 1..Len(links) :
          \A j \in 1..Len(rels_file) : rels_file[j].id # links[i].r_id
    /\ \E i \in 1..Len(links) :
          \E j \in 1..Len(rels_file) :
              rels_file[j].id = links[i].r_id /\ rels_file[j].target = links[i].url

\* C30: two URLs activated in one part that differ only in letter case or
\* a trailing slash are one URL at relationship level: their hyperlinks
\* carry the same relationship ID (and so share one relationship entry).
C30_SameUrlOneRelationship ==
    \A i \in 1..Len(links) : \A j \in 1..Len(links) :
        urls_match(links[i].url, links[j].url) => links[i].r_id = links[j].r_id

-----------------------------------------------------------------------------
(* C31: the link activator is idempotent                                   *)

\* C31: a pass of the link activator over the output of an earlier pass
\* changes nothing: the paragraph and the sidecar are what they were after
\* the earlier pass
C31_SecondPassChangesNothing ==
    apass >= 2 => aprev[1] = [para |-> apara, sidecar |-> asidecar]

\* a second pass has run over a paragraph in which the first one made a
\* hyperlink and added a relationship
C31_Witness ==
    /\ apass = 2
    /\ \E i \in 1..Len(apara) :
           apara[i].tag = "hyperlink" /\ apara[i] \notin {apara0[j] : j \in 1..Len(apara0)}
    /\ Len(asidecar) > Len(asidecar0)

-----------------------------------------------------------------------------
(* C32: hyperlinks and sidecar entries after activation                    *)

SidecarIds(sidecar) == {sidecar[i].id : i \in 1..Len(sidecar)}

\* C32: after a pass every hyperlink of the part refers to an entry of the
\* sidecar with the hyperlink type, the link's URL as target and the mode
\* External, and every entry the pass added is referred to by a hyperlink
C32_HyperlinksMatchEntries ==
    apass >= 1 =>
        /\ \A i \in 1..Len(apara) :
               apara[i].tag = "hyperlink" => Resolves(apara[i], asidecar)
        /\ \A id \in SidecarIds(asidecar) \ SidecarIds(aprev[1].sidecar) :
               \E i \in 1..Len(apara) :
                   apara[i].tag = "hyperlink" /\ apara[i].r_id = Some(id)

\* one pass has made two hyperlinks to different URLs and added an entry
\* for each
C32_Witness ==
    /\ apass = 1
    /\ Cardinality(SidecarIds(asidecar) \ SidecarIds(asidecar0)) = 2
    /\ \E i, j \in 1..Len(apara) :
           /\ apara[i].tag = "hyperlink" /\ apara[j].tag = "hyperlink"
           /\ apara[i].texts # apara[j].texts

-----------------------------------------------------------------------------
(* C38: the visible text of a paragraph under link activation              *)

RECURSIVE VisibleText(_)
VisibleText(children) ==
    IF children = <<>> THEN <<>>
    ELSE Concat(Head(children).texts) \o VisibleText(Tail(children))

\* C38: activation leaves the concatenation of the text nodes of a
\* paragraph as it was
C38_VisibleTextKept == VisibleText(apara) = VisibleText(apara0)

-----------------------------------------------------------------------------
(* C33: what the reference-list splice removes and where it inserts        *)

\* C33: when a heading is found, the body after the splice is the content
\* before the heading, then the new paragraphs with the heading styled
\* Heading1 first, then the section properties if there were any
C33_SpliceReplacesTail ==
    (ref_splices >= 1 /\ ref_found # None) =>
        LET prev == ref_prev[1]
            h == references_start(prev)
        IN  /\ ref_new[1].pstyle = Some("Heading1")
            /\ ref_body = SubSeq(prev, 1, h - 1) \o ref_new
                          \o (IF prev[Len(prev)] = SectPr THEN <<SectPr>> ELSE <<>>)

-----------------------------------------------------------------------------
(* C34: which paragraph is taken for the heading of the reference list     *)

IsTag(c) == c \in {"<i>", "</i>"}

\* position among the paragraphs of the first one whose trimmed text is,
\* letter case aside, one of the names
FirstNamed(body, names) ==
    LET paras == SelectSeq(body, IsPara)
        hits == {k \in 1..Len(paras) :
                    FoldCase(Strip(para_text(paras[k].runs))) \in names}
    IN  IF hits = {} THEN None
        ELSE Some(CHOOSE k \in hits : \A j \in hits : k <= j)

-----------------------------------------------------------------------------
(* C39: the paragraph built for a line of the reference list               *)

\* C39: the text nodes of the paragraph built for a line, joined in
\* document order, are the line without its italic tags, and the italic
\* runs hold exactly the marked spans
C39_ParagraphCarriesLine ==
    ref_splices >= 1 =>
        LET lines == generate_reference_list(ref_list, ref_style)
        IN  \A i \in 1..Len(lines) :
                /\ para_text(ref_new[i].runs)
                       = SelectSeq(lines[i], LAMBDA c : ~IsTag(c))
                /\ SelectSeq(ref_new[i].runs, LAMBDA r : r.italic)
                       = line_parts(lines[i]).italic

-----------------------------------------------------------------------------
(* C40: the reference-list splice is idempotent                            *)

\* C40: a second splice of the same list finds the heading the first one
\* wrote and leaves the body as the first one left it
C40_SecondSpliceSameBody ==
    ref_splices >= 2 => (ref_found # None /\ ref_body = ref_prev[1])

\* two splices over a body that had a heading with an old entry and a
\* table after it, with a reference to list
C40_Witness ==
    /\ ref_splices = 2
    /\ ref_list # <<>>
    /\ Len(ref_body0) >= 3
    /\ ref_body0[1] = BodyPara(<<"Bibliography", " ">>)
    /\ ref_body0[2] = BodyPara(<<"x">>)
    /\ ref_body0[3].tag = "tbl"

-----------------------------------------------------------------------------
(* C35: results whose year disagrees with the requested year               *)

\* C35: whatever the provider, a titled result is kept exactly when its
\* year is the requested year or within one year of it, and a kept result
\* that is within one year but not equal carries the near-year bonus of
\* 0.20 in its score
C35_YearCheckedForEveryProvider ==
    (cstage = "out" /\ cmeta.title # <<>>) =>
        LET near == cmeta.year # cq.year /\ WithinOneYear(cmeta.year, cq.year)
        IN  /\ cfinal # <<>> <=> (cmeta.year = cq.year \/ near)
            /\ (cfinal # <<>> /\ near) => cconf >= 20

-----------------------------------------------------------------------------
(* C36: notes reported as successes and what the document holds            *)

\* C36: a note whose entry in the results log has success = true holds the
\* text that entry reports as emitted
C36_SuccessMeansWritten ==
    \A i \in 1..Len(results) :
        results[i].success => doc[i] = results[i].formatted

-----------------------------------------------------------------------------
(* C37: one history for endnotes and footnotes                             *)

\* the pass for note i added its source to the history
Adds(i) == results[i].success /\ cases[i] \in {"S3", "S4", "S5"}

====
